---------------------------- MODULE Spec2Model ----------------------------
(***************************************************************************)
(* Raw Manager: the metadata cache (src/src/db.rs), the request handlers   *)
(* that keep it consistent with the library on disk (src/src/main.rs) and  *)
(* the metadata extractor (src/src/metadata.rs).                           *)
(*                                                                         *)
(* Strings are sequences of characters, a character is a one-letter        *)
(* string, so that trimming, LIKE matching and substr are computed.        *)
(* An Option<T> is a sequence of length at most one.                       *)
(***************************************************************************)
EXTENDS Integers, Sequences, FiniteSets, TLC

VARIABLES
    fs,       \* the library on disk: relative path -> directory or file
    files,    \* the table "files": path -> row
    fm,       \* file_metadata requests suspended at an await point
    mv,       \* fs_move requests suspended between rename and the cache update
    resp,     \* the outcome of the request that completed last
    scanned,  \* history: path -> (size, mtime) the file had when the worker
              \* last read it for the record now cached under that path
    ops,      \* number of requests taken so far
    previews, \* the preview directory: file name -> modification time and bytes
    reads,    \* history: how often ensure_preview has read a source file
    library_root,       \* AppState.library_root: the root as configured
    library_root_canon, \* AppState.library_root_canon: the root canonicalised
    tables    \* the database as init_db finds and leaves it: table name ->
              \* columns and rows; once the server runs, the rows of the
              \* table files are the variable files

vars == <<fs, files, fm, mv, resp, scanned, ops, previews, reads,
          library_root, library_root_canon, tables>>

None == <<>>

Some(v) == <<v>>

is_some(o) == o # None

unwrap(o) == o[1]

\* Option::or
or(o, other) == IF is_some(o) THEN o ELSE other

---------------------------------------------------------------------------
(* Bounds of the model.                                                    *)

\* requests the server takes in one behaviour
MaxOps == 2

\* file_metadata and fs_move requests in flight at once
MaxInflight == 1

---------------------------------------------------------------------------
(* Strings.                                                                *)

SLASH == "/"

\* the character U+00E9, two bytes in UTF-8
EACUTE == "e'"

\* str::len of one character: its length in UTF-8 bytes
char_len(c) == IF c = EACUTE THEN 2 ELSE 1

RECURSIVE len(_)
\* str::len: the length in bytes
len(s) == IF s = <<>> THEN 0 ELSE char_len(Head(s)) + len(Tail(s))

\* char::to_lowercase, and the case folding of SQLite's LIKE (ASCII only)
to_lowercase(c) ==
    CASE c = "A" -> "a"
      [] c = "D" -> "d"
      [] c = "R" -> "r"
      [] c = "W" -> "w"
      [] c = "X" -> "x"
      [] OTHER -> c

RECURSIVE trim_start_matches(_, _)
trim_start_matches(s, c) ==
    IF s # <<>> /\ Head(s) = c THEN trim_start_matches(Tail(s), c) ELSE s

RECURSIVE trim_end_matches(_, _)
trim_end_matches(s, c) ==
    IF s # <<>> /\ s[Len(s)] = c
    THEN trim_end_matches(SubSeq(s, 1, Len(s) - 1), c)
    ELSE s

\* str::trim_matches(c)
trim_matches(s, c) == trim_end_matches(trim_start_matches(s, c), c)

\* format!("{}/{}", a, b)
join2(a, b) == a \o <<SLASH>> \o b

\* Path::starts_with on relative paths: whole components only
starts_with(p, q) ==
    \/ q = <<>>
    \/ p = q
    \/ /\ Len(p) > Len(q)
       /\ SubSeq(p, 1, Len(q)) = q
       /\ p[Len(q) + 1] = SLASH

RECURSIVE last_slash(_)
\* position of the last '/' of s, 0 when there is none
last_slash(s) ==
    IF s = <<>> THEN 0
    ELSE IF s[Len(s)] = SLASH THEN Len(s)
    ELSE last_slash(SubSeq(s, 1, Len(s) - 1))

\* Path::file_name
file_name(p) == SubSeq(p, last_slash(p) + 1, Len(p))

\* Path::parent, as a relative path
parent(p) == IF last_slash(p) = 0 THEN <<>> ELSE SubSeq(p, 1, last_slash(p) - 1)

---------------------------------------------------------------------------
(* SQLite text functions used by the statements of db.rs.                  *)

RECURSIVE sql_like(_, _)
\* X LIKE pattern: '%' matches any run of characters, '_' any one character,
\* any other character matches itself without regard to ASCII letter case
sql_like(pattern, x) ==
    IF pattern = <<>> THEN x = <<>>
    ELSE IF Head(pattern) = "%"
         THEN \/ sql_like(Tail(pattern), x)
              \/ x # <<>> /\ sql_like(pattern, Tail(x))
    ELSE IF x = <<>> THEN FALSE
    ELSE IF Head(pattern) = "_" THEN sql_like(Tail(pattern), Tail(x))
    ELSE /\ to_lowercase(Head(pattern)) = to_lowercase(Head(x))
         /\ sql_like(Tail(pattern), Tail(x))

\* substr(x, y) for y >= 1: the characters of x from the y-th on
sql_substr(x, y) == IF y > Len(x) THEN <<>> ELSE SubSeq(x, y, Len(x))

---------------------------------------------------------------------------
(* The metadata extractor (metadata.rs).  A file's bytes are modelled by   *)
(* what the parsers find in them: the EXIF container (absent when the      *)
(* container is unreadable), the Rating of the embedded XMP packet and the *)
(* Rating of the .xmp sidecar next to the file.                            *)

RECURSIVE trim(_)
\* str::trim, of blanks
trim(s) ==
    IF s # <<>> /\ Head(s) = " " THEN trim(Tail(s))
    ELSE IF s # <<>> /\ s[Len(s)] = " " THEN trim(SubSeq(s, 1, Len(s) - 1))
    ELSE s

\* i32::MAX and i32::MIN
I32_MAX == 2147483647
I32_MIN == -I32_MAX - 1

\* 2^16 and 2^15: a 32-bit unsigned value is kept as its two 16-bit halves
HALF == 65536
SIGN == 32768

\* exif::Value: the type of a field and its components.  The components of
\* a Long are unsigned 32-bit, written [hi, lo] for hi * 2^16 + lo; those
\* of the other integer types fit an i32 and are written [n]; text is [s].
Byte(v) == [type |-> "Byte", v |-> v]
Short(v) == [type |-> "Short", v |-> v]
Long(v) == [type |-> "Long", v |-> v]
SShort(v) == [type |-> "SShort", v |-> v]
SLong(v) == [type |-> "SLong", v |-> v]
Ascii(v) == [type |-> "Ascii", v |-> v]

\* a component that is a small integer
I(n) == [n |-> n]

\* the u32 hi * 2^16 + lo
U(hi, lo) == [hi |-> hi, lo |-> lo]

\* the cast "as i32" of the u32 hi * 2^16 + lo: the same 32 bits, signed
as_i32(n) ==
    IF n.hi >= SIGN THEN (n.hi - HALF) * HALF + n.lo ELSE n.hi * HALF + n.lo

\* i32::clamp(lo, hi)
clamp(v, lo, hi) == IF v < lo THEN lo ELSE IF v > hi THEN hi ELSE v

\* ((percent as f32) / 20.0).round() as i32: round half away from zero
\* (the f32 is exact below 2^24 and keeps sign and size above)
round_div20(percent) ==
    LET floor == percent \div 20
        rest == percent % 20
    IN  IF percent >= 0
        THEN (IF rest >= 10 THEN floor + 1 ELSE floor)
        ELSE (IF rest > 10 THEN floor + 1 ELSE floor)

\* parse_numeric: the first component of a value of an integer type
parse_numeric(value) ==
    IF value.v = <<>> THEN None
    ELSE CASE value.type = "Long" -> Some(as_i32(value.v[1]))
           [] value.type \in {"Byte", "Short", "SShort", "SLong"} -> Some(value.v[1].n)
           [] OTHER -> None

RECURSIVE last_parsed(_, _)
\* the loop of extract_rating over the fields that carry one tag, in file
\* order: every such field assigns, so the last one decides
last_parsed(fields, acc) ==
    IF fields = <<>> THEN acc
    ELSE last_parsed(Tail(fields), parse_numeric(Head(fields)))

\* the chain of extract_rating with the percent tag first
extract_rating_percent_first(exif) ==
    LET rating == last_parsed(exif.rating, None)
        rating_percent == last_parsed(exif.rating_percent, None)
    IN  IF is_some(rating_percent)
        THEN Some(clamp(round_div20(unwrap(rating_percent)), 0, 5))
        ELSE IF is_some(rating) THEN Some(clamp(unwrap(rating), 0, 5))
        ELSE None

extract_rating(exif) ==
    LET rating == last_parsed(exif.rating, None)
        rating_percent == last_parsed(exif.rating_percent, None)
    IN  IF is_some(rating) THEN Some(clamp(unwrap(rating), 0, 5))
        ELSE IF is_some(rating_percent)
             THEN Some(clamp(round_div20(unwrap(rating_percent)), 0, 5))
        ELSE None

\* extract_orientation without the filter
extract_orientation_unfiltered(exif) ==
    IF is_some(exif.orientation)
    THEN parse_numeric(unwrap(exif.orientation)) ELSE None

extract_orientation(exif) ==
    LET value == IF is_some(exif.orientation)
                 THEN parse_numeric(unwrap(exif.orientation)) ELSE None
    IN  IF is_some(value) /\ unwrap(value) >= 1 /\ unwrap(value) <= 8
        THEN value ELSE None

\* exif::Rational and a value of rationals
Ratio(num, denom) == [num |-> num, denom |-> denom]

Rational(v) == [type |-> "Rational", v |-> v]

\* rational_to_f64, in units of 1/unit: 0 for a zero denominator.  The
\* model writes fractions that are whole in the unit.
rational_to_f64(value, unit) ==
    IF value.denom = 0 THEN 0 ELSE (value.num * unit) \div value.denom

\* seconds of arc in a degree and in a minute: coordinates are counted in
\* seconds of arc
DEGREE == 3600
MINUTE == 60

\* gps_value: degrees, minutes and seconds of a Rational value that has them
gps_value(value) ==
    IF value.type = "Rational" /\ Len(value.v) >= 3
    THEN Some(rational_to_f64(value.v[1], DEGREE)
              + rational_to_f64(value.v[2], MINUTE)
              + rational_to_f64(value.v[3], 1))
    ELSE None

\* str::trim().starts_with(c)
trim_starts_with(text, c) == trim(text) # <<>> /\ Head(trim(text)) = c

\* extract_gps with the hemispheres ignored
extract_gps_unsigned(exif) ==
    IF is_some(exif.gps_lat) /\ is_some(exif.gps_lat_ref)
       /\ is_some(exif.gps_lon) /\ is_some(exif.gps_lon_ref)
       /\ is_some(gps_value(unwrap(exif.gps_lat)))
       /\ is_some(gps_value(unwrap(exif.gps_lon)))
    THEN Some(<<unwrap(gps_value(unwrap(exif.gps_lat))),
                unwrap(gps_value(unwrap(exif.gps_lon)))>>)
    ELSE None

\* the GPS pair: all four fields are needed, and both values
extract_gps(exif) ==
    IF is_some(exif.gps_lat) /\ is_some(exif.gps_lat_ref)
       /\ is_some(exif.gps_lon) /\ is_some(exif.gps_lon_ref)
       /\ is_some(gps_value(unwrap(exif.gps_lat)))
       /\ is_some(gps_value(unwrap(exif.gps_lon)))
    THEN LET lat_value == unwrap(gps_value(unwrap(exif.gps_lat)))
             lon_value == unwrap(gps_value(unwrap(exif.gps_lon)))
         IN  Some(<<IF trim_starts_with(unwrap(exif.gps_lat_ref), "S")
                    THEN -lat_value ELSE lat_value,
                    IF trim_starts_with(unwrap(exif.gps_lon_ref), "W")
                    THEN -lon_value ELSE lon_value>>)
    ELSE None

\* DateTimeOriginal, else DateTime
extract_datetime(exif) == or(exif.datetime_original, exif.datetime)

Digits == {"0", "1", "2", "3", "4", "5", "6", "7", "8", "9"}

digit(c) ==
    CASE c = "0" -> 0 [] c = "1" -> 1 [] c = "2" -> 2 [] c = "3" -> 3
      [] c = "4" -> 4 [] c = "5" -> 5 [] c = "6" -> 6 [] c = "7" -> 7
      [] c = "8" -> 8 [] c = "9" -> 9

RECURSIVE parse_digits(_, _, _)
\* the checked loop of i32::from_str: acc * 10 + d, or acc * 10 - d after
\* a minus sign; Err (None) on another character and on overflow
parse_digits(s, acc, negative) ==
    IF s = <<>> THEN Some(acc)
    ELSE IF Head(s) \notin Digits THEN None
    ELSE IF negative
         THEN (IF acc < (I32_MIN + digit(Head(s)) + 9) \div 10 THEN None
               ELSE parse_digits(Tail(s), acc * 10 - digit(Head(s)), negative))
         ELSE (IF acc > (I32_MAX - digit(Head(s))) \div 10 THEN None
               ELSE parse_digits(Tail(s), acc * 10 + digit(Head(s)), negative))

\* str::parse::<i32>: an optional sign and at least one digit
parse_i32(s) ==
    IF s = <<>> THEN None
    ELSE IF Head(s) \in {"+", "-"}
         THEN (IF Tail(s) = <<>> THEN None
               ELSE parse_digits(Tail(s), 0, Head(s) = "-"))
    ELSE parse_digits(s, 0, FALSE)

\* parse_xmp_rating of a packet, given the text between the quotes of its
\* first xmp:Rating attribute and the text of its first <xmp:Rating>
\* element, where it has them
parse_xmp_rating(xmp) ==
    LET attribute == IF is_some(xmp.attribute)
                     THEN parse_i32(trim(unwrap(xmp.attribute))) ELSE None
        element == IF is_some(xmp.element)
                   THEN parse_i32(trim(unwrap(xmp.element))) ELSE None
    IN  IF is_some(attribute) THEN Some(clamp(unwrap(attribute), 0, 5))
        ELSE IF is_some(element) THEN Some(clamp(unwrap(element), 0, 5))
        ELSE None

\* extract_xmp_rating_from_bytes: the packet between <x:xmpmeta and
\* </x:xmpmeta>, if the bytes hold one
extract_xmp_rating_from_bytes(packet) ==
    IF is_some(packet) THEN parse_xmp_rating(unwrap(packet)) ELSE None

AllAbsent ==
    [camera_rating |-> None, gps_lat |-> None, gps_lon |-> None,
     taken_at |-> None, orientation |-> None]

\* what the parsers of read_metadata find in the file: the EXIF container,
\* the XMP packet in the file's bytes and the one in its sidecar
fromExif(content) ==
    IF is_some(content.exif)
    THEN LET exif == unwrap(content.exif)
             gps == extract_gps(exif)
         IN  [camera_rating |-> extract_rating(exif),
              gps_lat |-> IF is_some(gps) THEN Some(unwrap(gps)[1]) ELSE None,
              gps_lon |-> IF is_some(gps) THEN Some(unwrap(gps)[2]) ELSE None,
              taken_at |-> extract_datetime(exif),
              orientation |-> extract_orientation(exif)]
    ELSE AllAbsent

\* read_metadata of a file that opens, given what its bytes hold
read_metadata(content) ==
    LET xmp_rating == extract_xmp_rating_from_bytes(content.xmp)
        sidecar_rating == extract_xmp_rating_from_bytes(content.sidecar)
    IN  IF is_some(fromExif(content).camera_rating) THEN fromExif(content)
        ELSE [fromExif(content) EXCEPT
                 !.camera_rating = or(xmp_rating, sidecar_rating)]

NoExif ==
    [rating |-> <<>>, rating_percent |-> <<>>, orientation |-> None,
     gps_lat |-> None, gps_lat_ref |-> None, gps_lon |-> None,
     gps_lon_ref |-> None, datetime_original |-> None, datetime |-> None]

\* the value of a GPS field: degrees, minutes and seconds over 1
Position(deg, min, sec) == Rational(<<Ratio(deg, 1), Ratio(min, 1), Ratio(sec, 1)>>)

\* an XMP packet with the Rating attribute raw
Packet(raw) == [attribute |-> Some(raw), element |-> None]

\* a photo with a rating tag, an orientation and a position south-west
ContentA ==
    [exif |-> Some([NoExif EXCEPT !.rating = <<Short(<<I(3)>>)>>,
                                  !.rating_percent = <<Short(<<I(80)>>)>>,
                                  !.orientation = Some(Short(<<I(6)>>)),
                                  !.gps_lat = Some(Position(33, 0, 0)),
                                  !.gps_lat_ref = Some(<<"S">>),
                                  !.gps_lon = Some(Position(70, 30, 0)),
                                  !.gps_lon_ref = Some(<<"W">>),
                                  !.datetime_original = Some("2021")]),
     xmp |-> None, sidecar |-> None]

\* a photo rated in its XMP packet only, without an orientation tag
ContentB ==
    [exif |-> Some([NoExif EXCEPT !.orientation = Some(Short(<<I(9)>>)),
                                  !.gps_lat = Some(Position(48, 0, 0)),
                                  !.gps_lat_ref = Some(<<"N">>),
                                  !.datetime = Some("2022")]),
     xmp |-> Some(Packet(<<"7">>)), sidecar |-> Some(Packet(<<"1">>))]

\* a file whose container cannot be parsed
ContentC == [exif |-> None, xmp |-> None, sidecar |-> None]

---------------------------------------------------------------------------
(* The metadata cache (db.rs).  The table is a function from the primary   *)
(* key path to the other nine columns; NULL is None.  The tags column      *)
(* holds the JSON text of an array of strings.                             *)

\* the table after CREATE TABLE
EmptyTable == [p \in {} |-> None]

QUOTE == "\""

BACKSLASH == "\\"

COMMA == ","

RECURSIVE escape(_)
\* the characters of a JSON string for those of s
escape(s) ==
    IF s = <<>> THEN <<>>
    ELSE (IF Head(s) \in {QUOTE, BACKSLASH} THEN <<BACKSLASH, Head(s)>> ELSE <<Head(s)>>)
         \o escape(Tail(s))

RECURSIVE join_json(_)
\* the elements of an array, each quoted, with commas between
join_json(tags) ==
    IF tags = <<>> THEN <<>>
    ELSE <<QUOTE>> \o escape(Head(tags)) \o <<QUOTE>>
         \o (IF Tail(tags) = <<>> THEN <<>> ELSE <<COMMA>>)
         \o join_json(Tail(tags))

\* to_string that writes the characters of a tag as they are
to_string_unescaped(tags) ==
    LET RECURSIVE items(_)
        items(t) == IF t = <<>> THEN <<>>
                    ELSE <<QUOTE>> \o Head(t) \o <<QUOTE>>
                         \o (IF Tail(t) = <<>> THEN <<>> ELSE <<COMMA>>)
                         \o items(Tail(t))
    IN  <<"[">> \o items(tags) \o <<"]">>

\* serde_json::to_string(&tags)
to_string(tags) == <<"[">> \o join_json(tags) \o <<"]">>

\* the literal "[]" bound by upsert_user_rating
EMPTY_ARRAY == <<"[", "]">>

RECURSIVE parse_string(_, _, _)
\* the JSON string whose opening quote is before raw[i]: its value and the
\* index after its closing quote
parse_string(raw, i, value) ==
    IF i > Len(raw) THEN [ok |-> FALSE]
    ELSE IF raw[i] = QUOTE THEN [ok |-> TRUE, value |-> value, next |-> i + 1]
    ELSE IF raw[i] = BACKSLASH
         THEN IF i + 1 <= Len(raw) /\ raw[i + 1] \in {QUOTE, BACKSLASH}
              THEN parse_string(raw, i + 2, Append(value, raw[i + 1]))
              ELSE [ok |-> FALSE]
    ELSE parse_string(raw, i + 1, Append(value, raw[i]))

RECURSIVE skip_ws(_, _)
skip_ws(raw, i) ==
    IF i <= Len(raw) /\ raw[i] = " " THEN skip_ws(raw, i + 1) ELSE i

RECURSIVE parse_elements(_, _, _)
\* the elements of an array from raw[i] on, an element expected at i
parse_elements(raw, i0, tags) ==
    LET i == skip_ws(raw, i0)
    IN  IF i > Len(raw) \/ raw[i] # QUOTE THEN None
        ELSE LET str == parse_string(raw, i + 1, <<>>)
             IN  IF ~str.ok THEN None
                 ELSE LET j == skip_ws(raw, str.next)
                      IN  IF j > Len(raw) THEN None
                          ELSE IF raw[j] = COMMA
                               THEN parse_elements(raw, j + 1, Append(tags, str.value))
                          ELSE IF raw[j] = "]" /\ skip_ws(raw, j + 1) > Len(raw)
                               THEN Some(Append(tags, str.value))
                          ELSE None

\* serde_json::from_str::<Vec<String>>(raw).ok()
from_str(raw) ==
    LET i == skip_ws(raw, 1)
    IN  IF i > Len(raw) \/ raw[i] # "[" THEN None
        ELSE LET j == skip_ws(raw, i + 1)
             IN  IF j <= Len(raw) /\ raw[j] = "]"
                 THEN IF skip_ws(raw, j + 1) > Len(raw) THEN Some(<<>>) ELSE None
                 ELSE parse_elements(raw, j, <<>>)

\* the columns of a FileMeta, as upsert_file_meta binds them
row_of(meta) ==
    [camera_rating |-> meta.camera_rating, user_rating |-> meta.user_rating,
     tags |-> Some(to_string(meta.tags)),
     gps_lat |-> meta.gps_lat, gps_lon |-> meta.gps_lon,
     taken_at |-> meta.taken_at, orientation |-> meta.orientation,
     file_size |-> meta.file_size, last_modified |-> meta.last_modified]

row_to_meta(path, row) ==
    LET parsed == IF is_some(row.tags) THEN from_str(unwrap(row.tags)) ELSE None
    IN  [path |-> path,
         camera_rating |-> row.camera_rating, user_rating |-> row.user_rating,
         tags |-> IF is_some(parsed) THEN unwrap(parsed) ELSE <<>>,
         gps_lat |-> row.gps_lat, gps_lon |-> row.gps_lon,
         taken_at |-> row.taken_at, orientation |-> row.orientation,
         file_size |-> row.file_size, last_modified |-> row.last_modified]

get_file_meta(table, path) ==
    IF path \in DOMAIN table THEN Some(row_to_meta(path, table[path])) ELSE None

\* INSERT of a new row, or the DO UPDATE SET clause on the row of path
upsert(table, path, inserted, updated) ==
    [p \in DOMAIN table \cup {path} |->
        IF p # path THEN table[p]
        ELSE IF path \in DOMAIN table THEN updated ELSE inserted]

upsert_file_meta(table, meta) ==
    upsert(table, meta.path, row_of(meta),
           IF meta.path \in DOMAIN table
           THEN [table[meta.path] EXCEPT
                    !.camera_rating = meta.camera_rating,
                    !.user_rating = meta.user_rating,
                    !.tags = Some(to_string(meta.tags)),
                    !.gps_lat = meta.gps_lat,
                    !.gps_lon = meta.gps_lon,
                    !.taken_at = meta.taken_at,
                    !.file_size = meta.file_size,
                    !.last_modified = meta.last_modified,
                    !.orientation = meta.orientation]
           ELSE row_of(meta))

\* the row INSERT INTO files (path, user_rating, tags, file_size, last_modified)
\* creates: the columns it does not name are NULL
partial_row(user_rating, tags, file_size, last_modified) ==
    [camera_rating |-> None, user_rating |-> user_rating, tags |-> Some(tags),
     gps_lat |-> None, gps_lon |-> None, taken_at |-> None, orientation |-> None,
     file_size |-> file_size, last_modified |-> last_modified]

\* upsert_user_rating whose DO UPDATE SET also takes tags from the insert
upsert_user_rating_resets_tags(table, path, rating, file_size, last_modified) ==
    upsert(table, path,
           partial_row(rating, EMPTY_ARRAY, file_size, last_modified),
           IF path \in DOMAIN table
           THEN [table[path] EXCEPT !.user_rating = rating,
                                    !.tags = Some(EMPTY_ARRAY),
                                    !.file_size = file_size,
                                    !.last_modified = last_modified]
           ELSE None)

upsert_user_rating(table, path, rating, file_size, last_modified) ==
    upsert(table, path,
           partial_row(rating, EMPTY_ARRAY, file_size, last_modified),
           IF path \in DOMAIN table
           THEN [table[path] EXCEPT !.user_rating = rating,
                                    !.file_size = file_size,
                                    !.last_modified = last_modified]
           ELSE None)

\* upsert_tags whose DO UPDATE SET also takes user_rating from the insert
upsert_tags_clobbers_rating(table, path, tags, file_size, last_modified) ==
    upsert(table, path,
           partial_row(None, to_string(tags), file_size, last_modified),
           IF path \in DOMAIN table
           THEN [table[path] EXCEPT !.user_rating = None,
                                    !.tags = Some(to_string(tags)),
                                    !.file_size = file_size,
                                    !.last_modified = last_modified]
           ELSE None)

upsert_tags(table, path, tags, file_size, last_modified) ==
    upsert(table, path,
           partial_row(None, to_string(tags), file_size, last_modified),
           IF path \in DOMAIN table
           THEN [table[path] EXCEPT !.tags = Some(to_string(tags)),
                                    !.file_size = file_size,
                                    !.last_modified = last_modified]
           ELSE None)

\* DELETE FROM files WHERE path = ?
delete_meta(table, path) ==
    [p \in DOMAIN table \ {path} |-> table[p]]

\* DELETE FROM files WHERE path = ? OR path LIKE ?
delete_meta_prefix(table, prefix0) ==
    LET prefix == trim_matches(prefix0, SLASH)
        like_pattern == prefix \o <<SLASH, "%">>
    IN  [p \in {q \in DOMAIN table : ~(q = prefix \/ sql_like(like_pattern, q))}
            |-> table[p]]

\* update_path as UPDATE OR REPLACE: a row in the way of a new path is deleted
update_path_or_replace(table, selected, new) ==
    LET moved == {new[p] : p \in selected}
        origin(n) == CHOOSE p \in selected : new[p] = n
    IN  [ok |-> TRUE,
         table |-> [n \in (DOMAIN table \ selected) \cup moved |->
                       IF n \in moved THEN table[origin(n)] ELSE table[n]]]

\* UPDATE files SET path = new[p] for the rows in selected.  Rows are
\* rewritten one at a time and the primary key is checked at each: the
\* statement fails, changing nothing, when a new path is the path of another row.
update_path(table, selected, new) ==
    LET conflict ==
            \E p \in selected : \E q \in DOMAIN table :
                q # p /\ (new[p] = q \/ (q \in selected /\ new[p] = new[q]))
        moved == {new[p] : p \in selected}
        origin(n) == CHOOSE p \in selected : new[p] = n
    IN  IF conflict THEN [ok |-> FALSE, table |-> table]
        ELSE [ok |-> TRUE,
              table |-> [n \in (DOMAIN table \ selected) \cup moved |->
                            IF n \in moved THEN table[origin(n)] ELSE table[n]]]

\* move_meta that drops the row and leaves it to the next read to recreate
move_meta_drops_row(table, from_path, to_path) ==
    [ok |-> TRUE, table |-> delete_meta(table, from_path)]

\* UPDATE files SET path = ? WHERE path = ?
move_meta(table, from_path, to_path) ==
    LET selected == DOMAIN table \cap {from_path}
    IN  update_path(table, selected, [p \in selected |-> to_path])

\* UPDATE files SET path = ? || substr(path, ?) WHERE path LIKE ?
move_meta_prefix(table, from_prefix0, to_prefix0) ==
    LET from_prefix == trim_matches(from_prefix0, SLASH)
        to_prefix == trim_matches(to_prefix0, SLASH)
        like_pattern == from_prefix \o <<SLASH, "%">>
        target_prefix == IF to_prefix = <<>> THEN <<>> ELSE to_prefix \o <<SLASH>>
        start_index == len(from_prefix) + 2
        selected == {p \in DOMAIN table : sql_like(like_pattern, p)}
    IN  update_path(table, selected,
                    [p \in selected |-> target_prefix \o sql_substr(p, start_index)])

---------------------------------------------------------------------------
(* The schema (db.rs: init_db).  A database is a function from table names *)
(* to tables; a table has columns and rows, a row is a function from the   *)
(* column names to values.  Names and values are strings.                  *)

\* a column as PRAGMA table_info reports it
Column(name, type, pk, notnull, dflt) ==
    [name |-> name, type |-> type, pk |-> pk, notnull |-> notnull, dflt |-> dflt]

FILES == "files"

\* the columns of CREATE TABLE IF NOT EXISTS files
CurrentColumns ==
    { Column("path", "TEXT", TRUE, FALSE, None),
      Column("camera_rating", "INTEGER", FALSE, FALSE, None),
      Column("user_rating", "INTEGER", FALSE, FALSE, None),
      Column("tags", "TEXT", FALSE, FALSE, None),
      Column("gps_lat", "REAL", FALSE, FALSE, None),
      Column("gps_lon", "REAL", FALSE, FALSE, None),
      Column("taken_at", "TEXT", FALSE, FALSE, None),
      Column("orientation", "INTEGER", FALSE, FALSE, None),
      Column("file_size", "INTEGER", FALSE, TRUE, None),
      Column("last_modified", "INTEGER", FALSE, TRUE, None) }

\* the array "required" of ensure_files_schema, in its order
required ==
    << Column("camera_rating", "INTEGER", FALSE, FALSE, None),
       Column("user_rating", "INTEGER", FALSE, FALSE, None),
       Column("tags", "TEXT", FALSE, FALSE, None),
       Column("gps_lat", "REAL", FALSE, FALSE, None),
       Column("gps_lon", "REAL", FALSE, FALSE, None),
       Column("taken_at", "TEXT", FALSE, FALSE, None),
       Column("orientation", "INTEGER", FALSE, FALSE, None),
       Column("file_size", "INTEGER", FALSE, TRUE, Some("0")),
       Column("last_modified", "INTEGER", FALSE, TRUE, Some("0")) >>

NoTables == [t \in {} |-> None]

\* a result: the database the statements run so far have left, and whether
\* all of them succeeded
Ok(db) == [db |-> db, ok |-> TRUE]

Err(db) == [db |-> db, ok |-> FALSE]

\* CREATE TABLE IF NOT EXISTS files (...)
create_files_table(db) ==
    IF FILES \in DOMAIN db THEN db
    ELSE (FILES :> [columns |-> CurrentColumns, rows |-> {}]) @@ db

\* PRAGMA table_info(table): the names of the columns
list_columns(db, table) ==
    IF table \in DOMAIN db THEN {c.name : c \in db[table].columns} ELSE {}

\* format!("files_legacy_{}", legacy_suffix)
legacy_name(legacy_suffix) ==
    CASE legacy_suffix = 1 -> "files_legacy_1"
      [] legacy_suffix = 2 -> "files_legacy_2"
      [] legacy_suffix = 3 -> "files_legacy_3"

\* ALTER TABLE files RENAME TO name, which fails when the name is taken
rename_table(db, name) ==
    IF name \in DOMAIN db THEN Err(db)
    ELSE Ok([t \in (DOMAIN db \ {FILES}) \cup {name} |->
                IF t = name THEN db[FILES] ELSE db[t]])

\* ALTER TABLE files ADD COLUMN name ty: the rows take the default, or NULL
add_column(db, column) ==
    LET value == IF is_some(column.dflt) THEN unwrap(column.dflt) ELSE "NULL"
        names == list_columns(db, FILES) \cup {column.name}
    IN  [db EXCEPT ![FILES] =
            [columns |-> db[FILES].columns \cup {column},
             rows |-> {[c \in names |-> IF c = column.name THEN value ELSE row[c]] :
                          row \in db[FILES].rows}]]

RECURSIVE add_missing(_, _, _)
\* the loop over "required", with the columns read before the loop
add_missing(db, columns, rest) ==
    IF rest = <<>> THEN db
    ELSE IF Head(rest).name \in columns
         THEN add_missing(db, columns, Tail(rest))
         ELSE add_missing(add_column(db, Head(rest)), columns, Tail(rest))

\* ensure_files_schema at the time now, in seconds
ensure_files_schema(db, now) ==
    LET columns == list_columns(db, FILES)
    IN  IF columns = {} THEN Ok(db)
        ELSE IF "path" \notin columns
        THEN LET renamed == rename_table(db, legacy_name(now))
             IN  IF renamed.ok THEN Ok(create_files_table(renamed.db)) ELSE renamed
        ELSE Ok(add_missing(db, columns, required))

\* init_db: create_files_table, then ensure_files_schema
init_db(db, now) == ensure_files_schema(create_files_table(db), now)

\* the database of a server that was started without one
NewDatabase == init_db(NoTables, 1).db

---------------------------------------------------------------------------
(* The library on disk.  fs maps the path of every entry below the library *)
(* root, relative to the root, to the entry; the root itself is <<>>.      *)

\* what tokio::fs::metadata reports of a directory
DirEntry == [kind |-> "dir", size |-> 0, modified |-> 0]

\* what a program outside the server leaves of a RAW file it rewrites: len,
\* mtime in seconds, bytes
FileVersions ==
    { [kind |-> "file", size |-> 10, modified |-> 2, content |-> ContentC] }

\* the library the server is started on
InitialLibrary ==
    <<"a">> :> DirEntry
    @@ <<"a", SLASH, "x">> :> [kind |-> "file", size |-> 10, modified |-> 1, content |-> ContentA]
    @@ <<"A">> :> DirEntry
    @@ <<"_">> :> DirEntry
    @@ <<EACUTE>> :> DirEntry
    @@ <<EACUTE, SLASH, "x">> :> [kind |-> "file", size |-> 20, modified |-> 1, content |-> ContentB]

\* tokio::fs::canonicalize(root.join(rel)) succeeds
exists(disk, rel) == rel = <<>> \/ rel \in DOMAIN disk

\* tokio::fs::metadata of an existing path
metadata(disk, rel) == IF rel = <<>> THEN DirEntry ELSE disk[rel]

is_dir(disk, rel) == metadata(disk, rel).kind = "dir"

\* the freshness token of an entry: its length and its mtime in seconds
token(disk, rel) ==
    [size |-> metadata(disk, rel).size, modified |-> metadata(disk, rel).modified]

\* the entries of directory rel and below
subtree(disk, rel) == {p \in DOMAIN disk : p # rel /\ starts_with(p, rel)}

\* tokio::fs::remove_file, remove_dir (of an empty directory), remove_dir_all
remove(disk, rel) ==
    [p \in DOMAIN disk \ ({rel} \cup subtree(disk, rel)) |-> disk[p]]

\* tokio::fs::rename(from, to), to not existing: the entry and all below it
rename(disk, from, to) ==
    LET moved == {from} \cup subtree(disk, from)
        new(p) == to \o SubSeq(p, Len(from) + 1, Len(p))
        old(n) == CHOOSE p \in moved : new(p) = n
    IN  [n \in (DOMAIN disk \ moved) \cup {new(p) : p \in moved} |->
            IF n \in DOMAIN disk \ moved THEN disk[n] ELSE disk[old(n)]]

\* sanitize_relative, for paths without ".." components
sanitize_relative(path) == trim_matches(path, SLASH)

\* join_rel(base, name)
join_rel(base, name) == IF base = <<>> THEN name ELSE join2(base, name)

---------------------------------------------------------------------------
(* Requests.                                                               *)

\* the forms in which a client names the entry at rel
RawForms(rel) == {rel, <<SLASH>> \o rel}

\* a path no entry of the library has
MissingPath == <<"n">>

\* the paths clients send to file_metadata, set_rating and set_tags
RequestPaths ==
    UNION {RawForms(rel) : rel \in {p \in DOMAIN fs : fs[p].kind = "file"}}
    \cup {MissingPath}

\* the ratings clients send
RequestRatings == {Some(2), Some(6)}

\* the tag lists clients send
RequestTags == { << <<" ", "R">>, <<"r">>, <<" ">>, <<"x">> >> }

\* the folders clients move entries into: the folder "_" and the library root
Destinations == { <<"_">>, <<>> }

NoResponse ==
    [op |-> "none", path |-> <<>>, status |-> 0, body |-> None,
     existing |-> None, extracted |-> None]

\* a response that carries no record
Reply(op, path, status) ==
    [op |-> op, path |-> path, status |-> status, body |-> None,
     existing |-> None, extracted |-> None]

Budget == ops < MaxOps

---------------------------------------------------------------------------
(* The library root.  main reads it from the environment once; the state   *)
(* keeps the path as configured and the canonical path, each behind a lock *)
(* of its own.                                                             *)

\* the library, and a symbolic link to it
LIB == <<SLASH, "l", "i", "b">>

LINK == <<SLASH, "l", "n">>

\* tokio::fs::canonicalize of a root: the paths that resolve, others fail
canonicalize_root(root_path) ==
    IF root_path \in {LIB, LIB \o <<SLASH>>, LINK} THEN Some(LIB) ELSE None

\* RAW_MANAGER_LIBRARY_ROOT, else RAW_LIBRARY_ROOT, trimmed; a blank value
\* is no value
read_library_root_env(env) ==
    LET value == or(env.RAW_MANAGER_LIBRARY_ROOT, env.RAW_LIBRARY_ROOT)
    IN  IF is_some(value) /\ trim(unwrap(value)) # <<>>
        THEN Some(trim(unwrap(value)))
        ELSE None

\* main with the raw root kept when canonicalize fails
main_keeps_root(env) ==
    LET configured_root == read_library_root_env(env)
    IN  IF is_some(configured_root)
        THEN [library_root |-> configured_root,
              library_root_canon |-> canonicalize_root(unwrap(configured_root))]
        ELSE [library_root |-> None, library_root_canon |-> None]

\* the pair main puts in AppState
main(env) ==
    LET configured_root == read_library_root_env(env)
    IN  IF is_some(configured_root)
        THEN LET canon == canonicalize_root(unwrap(configured_root))
             IN  IF is_some(canon)
                 THEN [library_root |-> configured_root, library_root_canon |-> canon]
                 ELSE [library_root |-> None, library_root_canon |-> None]
        ELSE [library_root |-> None, library_root_canon |-> None]

\* the state of the configuration when the server starts to listen
Started(env) ==
    /\ library_root = main(env).library_root
    /\ library_root_canon = main(env).library_root_canon

\* the environment of a server started on the library
LibraryEnv == [RAW_MANAGER_LIBRARY_ROOT |-> Some(LIB), RAW_LIBRARY_ROOT |-> None]

\* library_root_canon.read().await.clone(); None stands for the error
\* CONFLICT "Library not configured"
get_root_canon == library_root_canon

---------------------------------------------------------------------------
(* file_metadata.  The handler is suspended while the worker runs          *)
(* read_metadata and again while the upsert runs; other requests run       *)
(* in between.                                                             *)

\* is_fresh without the backfill marker
is_fresh_by_token_only(existing, size, modified) ==
    /\ existing.file_size = size
    /\ existing.last_modified = modified

\* the match guard of file_metadata: the cached record is Fresh
is_fresh(existing, size, modified) ==
    /\ existing.file_size = size
    /\ existing.last_modified = modified
    /\ is_some(existing.orientation)

\* FileMetaResponse
FileMetaResponse(meta) ==
    [path |-> meta.path, name |-> file_name(sanitize_relative(meta.path)),
     camera_rating |-> meta.camera_rating, user_rating |-> meta.user_rating,
     tags |-> meta.tags, gps_lat |-> meta.gps_lat, gps_lon |-> meta.gps_lon,
     taken_at |-> meta.taken_at, orientation |-> meta.orientation,
     file_size |-> meta.file_size, last_modified |-> meta.last_modified]

\* new_meta with the arm for a missing record used for a found one as well
new_meta_forgets_user(path, extracted, existing, size, modified) ==
    [path |-> path,
     camera_rating |-> extracted.camera_rating,
     user_rating |-> None,
     tags |-> <<>>,
     gps_lat |-> extracted.gps_lat,
     gps_lon |-> extracted.gps_lon,
     taken_at |-> extracted.taken_at,
     orientation |-> or(extracted.orientation, Some(0)),
     file_size |-> size,
     last_modified |-> modified]

\* new_meta that carries the tags over and forgets the user rating
new_meta_drops_rating(path, extracted, existing, size, modified) ==
    [path |-> path,
     camera_rating |-> extracted.camera_rating,
     user_rating |-> None,
     tags |-> IF is_some(existing) THEN unwrap(existing).tags ELSE <<>>,
     gps_lat |-> extracted.gps_lat,
     gps_lon |-> extracted.gps_lon,
     taken_at |-> extracted.taken_at,
     orientation |-> or(extracted.orientation, Some(0)),
     file_size |-> size,
     last_modified |-> modified]

\* new_meta with the orientation as extracted, absent when the file has none
new_meta_without_backfill(path, extracted, existing, size, modified) ==
    [path |-> path,
     camera_rating |-> extracted.camera_rating,
     user_rating |-> IF is_some(existing) THEN unwrap(existing).user_rating ELSE None,
     tags |-> IF is_some(existing) THEN unwrap(existing).tags ELSE <<>>,
     gps_lat |-> extracted.gps_lat,
     gps_lon |-> extracted.gps_lon,
     taken_at |-> extracted.taken_at,
     orientation |-> extracted.orientation,
     file_size |-> size,
     last_modified |-> modified]

\* the FileMeta file_metadata builds from an extraction
new_meta(path, extracted, existing, size, modified) ==
    [path |-> path,
     camera_rating |-> extracted.camera_rating,
     user_rating |-> IF is_some(existing) THEN unwrap(existing).user_rating ELSE None,
     tags |-> IF is_some(existing) THEN unwrap(existing).tags ELSE <<>>,
     gps_lat |-> extracted.gps_lat,
     gps_lon |-> extracted.gps_lon,
     taken_at |-> extracted.taken_at,
     orientation |-> or(extracted.orientation, Some(0)),
     file_size |-> size,
     last_modified |-> modified]

\* the cache the server is started on: an earlier run has read a/x
InitialCache ==
    LET path == <<"a", SLASH, "x">>
        entry == InitialLibrary[path]
    IN  upsert_file_meta(EmptyTable,
                         new_meta(path, read_metadata(entry.content), None,
                                  entry.size, entry.modified))

\* canonicalize, stat, get_file_meta, and the Fresh arm of the match
file_metadata(path) ==
    LET rel == sanitize_relative(path)
        db_meta == get_file_meta(files, path)
    IN  /\ Budget
        /\ ops' = ops + 1
        /\ UNCHANGED <<fs, files, mv, scanned, previews, reads, library_root, library_root_canon, tables>>
        /\ IF get_root_canon = None
           THEN resp' = Reply("file_metadata", path, 409) /\ fm' = fm
           ELSE IF ~exists(fs, rel)
           THEN resp' = Reply("file_metadata", path, 404) /\ fm' = fm
           ELSE IF is_dir(fs, rel)
           THEN resp' = Reply("file_metadata", path, 400) /\ fm' = fm
           ELSE LET size == metadata(fs, rel).size
                    modified == metadata(fs, rel).modified
                IN  IF is_some(db_meta) /\ is_fresh(unwrap(db_meta), size, modified)
                    THEN /\ resp' = [op |-> "file_metadata", path |-> path,
                                     status |-> 200,
                                     body |-> Some(FileMetaResponse(
                                         [unwrap(db_meta) EXCEPT !.file_size = size,
                                                                 !.last_modified = modified])),
                                     existing |-> db_meta, extracted |-> None]
                         /\ fm' = fm
                    ELSE /\ Cardinality(fm) + Cardinality(mv) < MaxInflight
                         /\ fm' = fm \cup {[path |-> path, full_canon |-> rel,
                                            size |-> size, modified |-> modified,
                                            existing |-> db_meta, extracted |-> None,
                                            read_at |-> None, task |-> ops]}
                         /\ resp' = resp

\* the worker with a failure to open the file taken as a file without tags
file_metadata_extract_swallows(r) ==
    /\ r \in fm
    /\ r.extracted = None
    /\ UNCHANGED <<fs, files, mv, scanned, ops, previews, reads, library_root, library_root_canon, tables>>
    /\ fm' = (fm \ {r}) \cup
                {[r EXCEPT !.extracted =
                     Some(IF ~exists(fs, r.full_canon) \/ is_dir(fs, r.full_canon)
                          THEN AllAbsent
                          ELSE read_metadata(fs[r.full_canon].content)),
                           !.read_at = Some([size |-> r.size, modified |-> r.modified])]}
    /\ resp' = resp

\* the worker: read_metadata(&full_canon)
file_metadata_extract(r) ==
    /\ r \in fm
    /\ r.extracted = None
    /\ UNCHANGED <<fs, files, mv, scanned, ops, previews, reads, library_root, library_root_canon, tables>>
    /\ IF ~exists(fs, r.full_canon)
       THEN \* File::open fails
            /\ fm' = fm \ {r}
            /\ resp' = [Reply("file_metadata", r.path, 500) EXCEPT !.existing = r.existing]
       ELSE /\ fm' = (fm \ {r}) \cup
                     {[r EXCEPT !.extracted =
                          Some(IF is_dir(fs, r.full_canon) THEN AllAbsent
                               ELSE read_metadata(fs[r.full_canon].content)),
                                !.read_at = Some(token(fs, r.full_canon))]}
            /\ resp' = resp

\* upsert_file_meta of the merged record, and the response
file_metadata_upsert(r) ==
    /\ r \in fm
    /\ is_some(r.extracted)
    /\ LET meta == new_meta(r.path, unwrap(r.extracted), r.existing, r.size, r.modified)
       IN  /\ files' = upsert_file_meta(files, meta)
           /\ resp' = [op |-> "file_metadata", path |-> r.path, status |-> 200,
                       body |-> Some(FileMetaResponse(meta)),
                       existing |-> r.existing, extracted |-> r.extracted]
    /\ fm' = fm \ {r}
    /\ scanned' = [p \in DOMAIN scanned \cup {r.path} |->
                      IF p = r.path THEN unwrap(r.read_at) ELSE scanned[p]]
    /\ UNCHANGED <<fs, mv, ops, previews, reads, library_root, library_root_canon, tables>>

---------------------------------------------------------------------------
(* set_rating and set_tags.                                                *)

\* set_rating without the test of the range
set_rating_unchecked(path, rating) ==
    LET rel == sanitize_relative(path)
    IN  /\ Budget
        /\ ops' = ops + 1
        /\ UNCHANGED <<fs, fm, mv, scanned, previews, reads, library_root, library_root_canon, tables>>
        /\ IF get_root_canon = None
           THEN resp' = Reply("set_rating", path, 409) /\ files' = files
           ELSE IF ~exists(fs, rel)
           THEN resp' = Reply("set_rating", path, 404) /\ files' = files
           ELSE /\ files' = upsert_user_rating(files, path, rating,
                                               metadata(fs, rel).size,
                                               metadata(fs, rel).modified)
                /\ resp' = [Reply("set_rating", path, 200) EXCEPT
                               !.body = Some([user_rating |-> rating]),
                               !.existing = get_file_meta(files, path)]

set_rating(path, rating) ==
    LET rel == sanitize_relative(path)
    IN  /\ Budget
        /\ ops' = ops + 1
        /\ UNCHANGED <<fs, fm, mv, scanned, previews, reads, library_root, library_root_canon, tables>>
        /\ IF get_root_canon = None
           THEN resp' = Reply("set_rating", path, 409) /\ files' = files
           ELSE IF ~exists(fs, rel)
           THEN resp' = Reply("set_rating", path, 404) /\ files' = files
           ELSE IF is_some(rating) /\ ~(unwrap(rating) >= 0 /\ unwrap(rating) <= 5)
           THEN resp' = Reply("set_rating", path, 400) /\ files' = files
           ELSE /\ files' = upsert_user_rating(files, path, rating,
                                               metadata(fs, rel).size,
                                               metadata(fs, rel).modified)
                /\ resp' = [Reply("set_rating", path, 200) EXCEPT
                               !.body = Some([user_rating |-> rating]),
                               !.existing = get_file_meta(files, path)]

\* str::to_lowercase
lowercase(s) == [i \in 1..Len(s) |-> to_lowercase(s[i])]

RECURSIVE normalize_tags_exact(_, _, _)
\* the loop of set_tags with the tags compared as they are written
normalize_tags_exact(rest, seen, tags) ==
    IF rest = <<>> THEN tags
    ELSE LET trimmed == trim(Head(rest))
         IN  IF trimmed = <<>> THEN normalize_tags_exact(Tail(rest), seen, tags)
             ELSE IF trimmed \in seen
                  THEN normalize_tags_exact(Tail(rest), seen, tags)
             ELSE normalize_tags_exact(Tail(rest), seen \cup {trimmed},
                                       Append(tags, trimmed))

RECURSIVE normalize_tags(_, _, _)
\* the loop of set_tags over the tags not yet visited
normalize_tags(rest, seen, tags) ==
    IF rest = <<>> THEN tags
    ELSE LET trimmed == trim(Head(rest))
         IN  IF trimmed = <<>> THEN normalize_tags(Tail(rest), seen, tags)
             ELSE IF lowercase(trimmed) \in seen
                  THEN normalize_tags(Tail(rest), seen, tags)
             ELSE normalize_tags(Tail(rest), seen \cup {lowercase(trimmed)},
                                 Append(tags, trimmed))

set_tags(path, request_tags) ==
    LET rel == sanitize_relative(path)
        tags == normalize_tags(request_tags, {}, <<>>)
    IN  /\ Budget
        /\ ops' = ops + 1
        /\ UNCHANGED <<fs, fm, mv, scanned, previews, reads, library_root, library_root_canon, tables>>
        /\ IF get_root_canon = None
           THEN resp' = Reply("set_tags", path, 409) /\ files' = files
           ELSE IF ~exists(fs, rel)
           THEN resp' = Reply("set_tags", path, 404) /\ files' = files
           ELSE /\ files' = upsert_tags(files, path, tags,
                                        metadata(fs, rel).size,
                                        metadata(fs, rel).modified)
                /\ resp' = [Reply("set_tags", path, 200) EXCEPT
                               !.body = Some([tags |-> tags]),
                               !.existing = get_file_meta(files, path)]

---------------------------------------------------------------------------
(* fs_delete and fs_move, for a request that names one path.               *)

\* history: the reads whose record the statement left as it was
still_scanned(table) ==
    [p \in {q \in DOMAIN scanned \cap DOMAIN table : table[q] = files[q]} |->
        scanned[p]]

fs_delete(path, recursive) ==
    LET rel == sanitize_relative(path)
        rel_str == rel
    IN  /\ Budget
        /\ ops' = ops + 1
        /\ UNCHANGED <<fm, mv, previews, reads, library_root, library_root_canon, tables>>
        /\ IF get_root_canon = None
           THEN resp' = Reply("fs_delete", path, 409) /\ UNCHANGED <<fs, files>>
           ELSE IF rel = <<>>
           THEN resp' = Reply("fs_delete", path, 400) /\ UNCHANGED <<fs, files>>
           ELSE IF ~exists(fs, rel)
           THEN resp' = Reply("fs_delete", path, 404) /\ UNCHANGED <<fs, files>>
           ELSE IF is_dir(fs, rel)
           THEN IF recursive
                THEN /\ fs' = remove(fs, rel)
                     /\ files' = delete_meta_prefix(files, rel_str)
                     /\ resp' = [Reply("fs_delete", path, 200) EXCEPT
                                    !.body = Some([success |-> TRUE])]
                ELSE IF subtree(fs, rel) # {}
                THEN \* remove_dir: DirectoryNotEmpty
                     resp' = Reply("fs_delete", path, 400) /\ UNCHANGED <<fs, files>>
                ELSE /\ fs' = remove(fs, rel)
                     /\ files' = files
                     /\ resp' = [Reply("fs_delete", path, 200) EXCEPT
                                    !.body = Some([success |-> TRUE])]
           ELSE /\ fs' = remove(fs, rel)
                /\ files' = delete_meta(files, rel_str)
                /\ resp' = [Reply("fs_delete", path, 200) EXCEPT
                               !.body = Some([success |-> TRUE])]
        /\ scanned' = still_scanned(files')

\* fs_move up to the rename; the cache update follows after an await
fs_move(path, destination) ==
    LET dest_rel == sanitize_relative(destination)
        rel == sanitize_relative(path)
        name == file_name(rel)
        target_rel == join_rel(dest_rel, name)
    IN  /\ Budget
        /\ ops' = ops + 1
        /\ UNCHANGED <<files, fm, scanned, previews, reads, library_root, library_root_canon, tables>>
        /\ IF get_root_canon = None
           THEN resp' = Reply("fs_move", path, 409) /\ UNCHANGED <<fs, mv>>
           ELSE IF ~exists(fs, dest_rel)
           THEN resp' = Reply("fs_move", path, 404) /\ UNCHANGED <<fs, mv>>
           ELSE IF ~is_dir(fs, dest_rel)
           THEN resp' = Reply("fs_move", path, 400) /\ UNCHANGED <<fs, mv>>
           ELSE IF rel = <<>>
           THEN resp' = Reply("fs_move", path, 400) /\ UNCHANGED <<fs, mv>>
           ELSE IF ~exists(fs, rel)
           THEN resp' = Reply("fs_move", path, 404) /\ UNCHANGED <<fs, mv>>
           ELSE IF is_dir(fs, rel) /\ starts_with(dest_rel, rel)
           THEN resp' = Reply("fs_move", path, 400) /\ UNCHANGED <<fs, mv>>
           ELSE IF exists(fs, target_rel)
           THEN resp' = Reply("fs_move", path, 400) /\ UNCHANGED <<fs, mv>>
           ELSE /\ Cardinality(fm) + Cardinality(mv) < MaxInflight
                /\ fs' = rename(fs, rel, target_rel)
                /\ mv' = mv \cup {[path |-> path, rel_str |-> rel,
                                   target_rel_str |-> target_rel,
                                   is_dir |-> is_dir(fs, rel)]}
                /\ resp' = resp

\* move_meta_prefix or move_meta, and the response
fs_move_cache(m) ==
    /\ m \in mv
    /\ mv' = mv \ {m}
    /\ UNCHANGED <<fs, fm, ops, previews, reads, library_root, library_root_canon, tables>>
    /\ LET moved == IF m.is_dir
                    THEN move_meta_prefix(files, m.rel_str, m.target_rel_str)
                    ELSE move_meta(files, m.rel_str, m.target_rel_str)
       IN  /\ files' = moved.table
           /\ resp' = [Reply("fs_move", m.path, IF moved.ok THEN 200 ELSE 500) EXCEPT
                          !.body = IF moved.ok THEN Some([success |-> TRUE]) ELSE None,
                          !.existing = get_file_meta(files, m.rel_str)]
    /\ scanned' = still_scanned(files')

---------------------------------------------------------------------------
(* The environment: a program outside the server rewrites a RAW file, each *)
(* file once.                                                              *)

touch(rel, version) ==
    /\ rel \in DOMAIN fs
    /\ fs[rel].kind = "file"
    /\ fs[rel] \notin FileVersions
    /\ ops' = ops
    /\ fs' = [fs EXCEPT ![rel] = version]
    /\ UNCHANGED <<files, fm, mv, resp, scanned, previews, reads, library_root, library_root_canon, tables>>

---------------------------------------------------------------------------

\* the preview directory as create_dir_all leaves it at the first start
NoPreviews == <<>>

Init ==
    /\ fs = InitialLibrary
    /\ files = InitialCache
    /\ fm = {}
    /\ mv = {}
    /\ resp = NoResponse
    /\ scanned = [p \in DOMAIN InitialCache |-> token(InitialLibrary, p)]
    /\ ops = 0
    /\ previews = NoPreviews
    /\ reads = 0
    /\ Started(LibraryEnv)
    /\ tables = NewDatabase

Next ==
    \/ \E path \in RequestPaths : file_metadata(path)
    \/ \E r \in fm : file_metadata_extract(r)
    \/ \E r \in fm : file_metadata_upsert(r)
    \/ \E path \in RequestPaths, rating \in RequestRatings : set_rating(path, rating)
    \/ \E path \in RequestPaths, tags \in RequestTags : set_tags(path, tags)
    \/ \E path \in DOMAIN fs \cup {MissingPath}, recursive \in BOOLEAN :
          fs_delete(path, recursive)
    \/ \E path \in DOMAIN fs \cup {MissingPath},
          destination \in Destinations :
          fs_move(path, destination)
    \/ \E m \in mv : fs_move_cache(m)
    \/ \E rel \in DOMAIN fs, version \in FileVersions : touch(rel, version)

Spec == Init /\ [][Next]_vars

\* the cache of a library in use: a/x has been read, rated and tagged
TaggedCache ==
    LET path == <<"a", SLASH, "x">>
        entry == InitialLibrary[path]
    IN  upsert_tags(upsert_user_rating(InitialCache, path, Some(4),
                                       entry.size, entry.modified),
                    path, << <<"k">> >>, entry.size, entry.modified)

\* the server started on a library in use
InitTagged ==
    /\ fs = InitialLibrary
    /\ files = TaggedCache
    /\ fm = {}
    /\ mv = {}
    /\ resp = NoResponse
    /\ scanned = [p \in DOMAIN TaggedCache |-> token(InitialLibrary, p)]
    /\ ops = 0
    /\ previews = NoPreviews
    /\ reads = 0
    /\ Started(LibraryEnv)
    /\ tables = NewDatabase

SpecTagged == InitTagged /\ [][Next]_vars

---------------------------------------------------------------------------
(* browse: the listing of a folder, joined with the cache.                 *)

DOT == "."

RECURSIVE last_dot(_)
\* position of the last '.' of s, 0 when there is none
last_dot(s) ==
    IF s = <<>> THEN 0
    ELSE IF s[Len(s)] = DOT THEN Len(s)
    ELSE last_dot(SubSeq(s, 1, Len(s) - 1))

\* Path::extension: what follows the last '.' of the file name, unless the
\* name has none or begins with its only one
extension(p) ==
    LET name == file_name(p)
    IN  IF last_dot(name) <= 1 THEN None
        ELSE Some(SubSeq(name, last_dot(name) + 1, Len(name)))

\* the extensions of is_supported_raw that the library uses
RawExtensions == { <<"a", "r", "w">>, <<"d", "n", "g">> }

is_supported_raw(p) ==
    LET ext == IF is_some(extension(p)) THEN lowercase(unwrap(extension(p))) ELSE <<>>
    IN  ext \in RawExtensions

\* the first UTF-8 byte of a character, which orders strings
char_rank(c) ==
    CASE c = " " -> 32
      [] c = DOT -> 46
      [] c = SLASH -> 47
      [] c = "A" -> 65
      [] c = "R" -> 82
      [] c = "W" -> 87
      [] c = "_" -> 95
      [] c = "a" -> 97
      [] c = "n" -> 110
      [] c = "r" -> 114
      [] c = "w" -> 119
      [] c = "x" -> 120
      [] c = EACUTE -> 195
      [] OTHER -> 63

RECURSIVE cmp(_, _)
\* Ord::cmp of two strings: "Less", "Equal" or "Greater"
cmp(a, b) ==
    IF a = <<>> THEN (IF b = <<>> THEN "Equal" ELSE "Less")
    ELSE IF b = <<>> THEN "Greater"
    ELSE IF char_rank(Head(a)) < char_rank(Head(b)) THEN "Less"
    ELSE IF char_rank(Head(a)) > char_rank(Head(b)) THEN "Greater"
    ELSE cmp(Tail(a), Tail(b))

\* the comparator of entries.sort_by
entry_cmp(a, b) ==
    IF a.kind = "dir" /\ b.kind = "file" THEN "Less"
    ELSE IF a.kind = "file" /\ b.kind = "dir" THEN "Greater"
    ELSE cmp(lowercase(a.name), lowercase(b.name))

\* the outcomes of the stable sort of the entries, read in any order
sort_by(entries) ==
    {order \in [1..Cardinality(entries) -> entries] :
        /\ \A i, j \in DOMAIN order : i # j => order[i] # order[j]
        /\ \A i, j \in DOMAIN order : i < j => entry_cmp(order[i], order[j]) # "Greater"}

\* the is_fresh of browse
browse_is_fresh_by_token_only(db_meta, size, modified) ==
    /\ db_meta.file_size = size
    /\ db_meta.last_modified = modified

browse_is_fresh(db_meta, size, modified) ==
    /\ db_meta.file_size = size
    /\ db_meta.last_modified = modified
    /\ is_some(db_meta.orientation)

\* the BrowseEntry of the directory entry at p
BrowseEntry(p) ==
    LET db_meta == get_file_meta(files, p)
        size == metadata(fs, p).size
        modified == metadata(fs, p).modified
        absent == [name |-> file_name(p), path |-> p, kind |-> fs[p].kind,
                   size |-> None, modified |-> None,
                   camera_rating |-> None, user_rating |-> None, tags |-> <<>>,
                   gps_lat |-> None, gps_lon |-> None, taken_at |-> None,
                   orientation |-> None, needs_scan |-> FALSE]
    IN  IF fs[p].kind = "dir" THEN absent
        ELSE IF is_some(db_meta)
        THEN [absent EXCEPT
                 !.size = Some(size), !.modified = Some(modified),
                 !.camera_rating = unwrap(db_meta).camera_rating,
                 !.user_rating = unwrap(db_meta).user_rating,
                 !.tags = unwrap(db_meta).tags,
                 !.gps_lat = unwrap(db_meta).gps_lat,
                 !.gps_lon = unwrap(db_meta).gps_lon,
                 !.taken_at = unwrap(db_meta).taken_at,
                 !.orientation = unwrap(db_meta).orientation,
                 !.needs_scan = ~browse_is_fresh(unwrap(db_meta), size, modified)]
        ELSE [absent EXCEPT !.size = Some(size), !.modified = Some(modified),
                            !.needs_scan = TRUE]

\* the entries of the folder rel that browse lists
listed(rel) ==
    {p \in DOMAIN fs : parent(p) = rel /\ (fs[p].kind = "dir" \/ is_supported_raw(p))}

browse(path) ==
    LET rel == sanitize_relative(path)
    IN  /\ Budget
        /\ ops' = ops + 1
        /\ UNCHANGED <<fs, files, fm, mv, scanned, previews, reads, library_root, library_root_canon, tables>>
        /\ IF get_root_canon = None
           THEN resp' = Reply("browse", path, 409)
           ELSE IF ~exists(fs, rel) \/ ~is_dir(fs, rel)
           THEN resp' = Reply("browse", path, 404)
           ELSE \E entries \in sort_by({BrowseEntry(p) : p \in listed(rel)}) :
                    resp' = [Reply("browse", path, 200) EXCEPT
                                !.body = Some([path |-> rel, entries |-> entries])]

\* a library with RAW files, a file that is none, and folders
BrowseLibrary ==
    <<"a">> :> DirEntry
    @@ <<"A">> :> DirEntry
    @@ <<"a", SLASH, "x", DOT, "A", "R", "W">> :>
          [kind |-> "file", size |-> 10, modified |-> 1, content |-> ContentA]
    @@ <<"a", SLASH, "r", DOT, "a", "r", "w">> :>
          [kind |-> "file", size |-> 20, modified |-> 1, content |-> ContentB]
    @@ <<"a", SLASH, "n">> :>
          [kind |-> "file", size |-> 20, modified |-> 1, content |-> ContentB]
    @@ <<"a", SLASH, "_">> :> DirEntry

\* the cache of that library: an earlier run has read a/x.ARW
BrowseCache ==
    LET path == <<"a", SLASH, "x", DOT, "A", "R", "W">>
        entry == BrowseLibrary[path]
    IN  upsert_file_meta(EmptyTable,
                         new_meta(path, read_metadata(entry.content), None,
                                  entry.size, entry.modified))

\* the folders clients list
BrowsePaths == { <<>>, <<"a">>, <<SLASH, "a", SLASH>>, <<"a", SLASH, "n">>, MissingPath }

InitBrowse ==
    /\ fs = BrowseLibrary
    /\ files = BrowseCache
    /\ fm = {}
    /\ mv = {}
    /\ resp = NoResponse
    /\ scanned = [p \in DOMAIN BrowseCache |-> token(BrowseLibrary, p)]
    /\ ops = 0
    /\ previews = NoPreviews
    /\ reads = 0
    /\ Started(LibraryEnv)
    /\ tables = NewDatabase

\* the files clients read and rate while the folders are listed
BrowseFiles == {p \in DOMAIN BrowseLibrary : is_supported_raw(p)}

NextBrowse ==
    \/ \E path \in BrowsePaths : browse(path)
    \/ \E path \in BrowseFiles : file_metadata(path)
    \/ \E r \in fm : file_metadata_extract(r)
    \/ \E r \in fm : file_metadata_upsert(r)
    \/ \E path \in BrowseFiles, rating \in RequestRatings : set_rating(path, rating)
    \/ \E rel \in BrowseFiles, version \in FileVersions : touch(rel, version)

SpecBrowse == InitBrowse /\ [][NextBrowse]_vars

---------------------------------------------------------------------------
(* Previews: the JPEG embedded in a RAW file, cached under a name made of  *)
(* the relative path.                                                      *)

\* the bytes of the JPEG markers: FF D8 starts an image, FF D9 ends one
FF == 255
D8 == 216
D9 == 217

\* length of the buffers read in full
MaxBytes == 4

Bytes == {0, D8, D9, FF}

RECURSIVE find_end(_, _)
\* the inner loop of find_largest_jpeg from offset i: the offset after the
\* first end marker, if there is one
find_end(data, i) ==
    IF ~(i + 1 < Len(data)) THEN None
    ELSE IF data[i + 1] = FF /\ data[i + 2] = D9 THEN Some(i + 2)
    ELSE find_end(data, i + 1)

RECURSIVE scan_keeps_last(_, _, _)
\* the outer loop with <= for <: of equally long ranges the last is kept
scan_keeps_last(data, i, best) ==
    IF ~(i + 1 < Len(data)) THEN best
    ELSE IF data[i + 1] = FF /\ data[i + 2] = D8
    THEN LET end == find_end(data, i + 2)
             size == unwrap(end) - i
             best_size == IF is_some(best) THEN unwrap(best)[2] - unwrap(best)[1] ELSE 0
         IN  IF is_some(end)
             THEN scan_keeps_last(data, unwrap(end),
                       IF best_size <= size THEN Some(<<i, unwrap(end)>>) ELSE best)
             ELSE best
    ELSE scan_keeps_last(data, i + 1, best)

RECURSIVE scan(_, _, _)
\* the outer loop of find_largest_jpeg from offset i with the best range so
\* far; offsets count from 0 as in the source
scan(data, i, best) ==
    IF ~(i + 1 < Len(data)) THEN best
    ELSE IF data[i + 1] = FF /\ data[i + 2] = D8
    THEN LET end == find_end(data, i + 2)
             size == unwrap(end) - i
             best_size == IF is_some(best) THEN unwrap(best)[2] - unwrap(best)[1] ELSE 0
         IN  IF is_some(end)
             THEN scan(data, unwrap(end),
                       IF best_size < size THEN Some(<<i, unwrap(end)>>) ELSE best)
             ELSE best
    ELSE scan(data, i + 1, best)

find_largest_jpeg(data) == scan(data, 0, None)

\* &data[start..end]
slice(data, start, end) == SubSeq(data, start + 1, end)

\* hex::encode of the SHA-256 of bytes.  The digest is taken as injective:
\* it stands for the bytes it was computed from.
sha256_hex(bytes) == <<"#">> \o bytes

\* a name made of the last component only
preview_cache_path_by_name(preview_dir, rel_path) ==
    preview_dir \o <<SLASH>> \o sha256_hex(file_name(rel_path)) \o <<".jpg">>

preview_cache_path(preview_dir, rel_path) ==
    preview_dir \o <<SLASH>> \o sha256_hex(rel_path) \o <<".jpg">>

\* the directory "previews" of the data directory
PREVIEW_DIR == <<"previews">>

\* the test of ensure_preview with > for >=
cache_hit_if_newer(preview_path, source_modified) ==
    /\ preview_path \in DOMAIN previews
    /\ previews[preview_path].modified > source_modified

\* the destination exists and is not older than the source
cache_hit(preview_path, source_modified) ==
    /\ preview_path \in DOMAIN previews
    /\ previews[preview_path].modified >= source_modified

\* the times of the clock when a preview is written
WriteTimes == {1, 2}

\* ensure_preview on the file at rel and the preview path of rel.  The
\* entry written records in "source" the relative path it was made for.
ensure_preview(rel) ==
    LET preview_path == preview_cache_path(PREVIEW_DIR, rel)
    IN  /\ Budget
        /\ ops' = ops + 1
        /\ UNCHANGED <<fs, files, fm, mv, scanned, library_root, library_root_canon, tables>>
        /\ IF ~exists(fs, rel)
           THEN /\ resp' = Reply("ensure_preview", rel, 500)
                /\ UNCHANGED <<previews, reads, library_root, library_root_canon, tables>>
           ELSE IF cache_hit(preview_path, metadata(fs, rel).modified)
           THEN /\ resp' = [Reply("ensure_preview", rel, 200) EXCEPT !.body = Some(TRUE)]
                /\ UNCHANGED <<previews, reads, library_root, library_root_canon, tables>>
           ELSE LET data == fs[rel].content.data
                    range == find_largest_jpeg(data)
                IN  /\ reads' = reads + 1
                    /\ IF is_some(range) /\ unwrap(range)[2] > unwrap(range)[1]
                       THEN /\ \E now \in WriteTimes :
                                 previews' =
                                     (preview_path :>
                                        [modified |-> now,
                                         bytes |-> slice(data, unwrap(range)[1],
                                                         unwrap(range)[2]),
                                         source |-> rel])
                                     @@ previews
                            /\ resp' = [Reply("ensure_preview", rel, 200)
                                           EXCEPT !.body = Some(TRUE)]
                       ELSE /\ UNCHANGED previews
                            /\ resp' = [Reply("ensure_preview", rel, 200)
                                           EXCEPT !.body = Some(FALSE)]

\* a file of which only the bytes matter
RawFile(modified, data) ==
    [kind |-> "file", size |-> Len(data), modified |-> modified,
     content |-> [exif |-> None, xmp |-> None, sidecar |-> None,
                  data |-> data]]

\* buffers with two images, with an image that holds another one, and with
\* an end marker after the end marker
Samples ==
    { <<FF, D8, FF, D9, FF, D8, 0, FF, D9>>,
      <<FF, D8, 0, FF, D9, FF, D8, FF, D9>>,
      <<FF, D8, FF, D8, FF, D9, FF, D9>>,
      <<FF, D8, FF, D9, FF, D9>>,
      <<FF, D8, FF, D9, FF, D8, FF, D9>>,
      <<FF, D8, 0, FF, D9, FF, D8, D8, FF, D9>>,
      <<FF, D8, FF, D9, FF, D8, 0, FF>>,
      <<0, FF, D8, 0, FF>> }

\* the buffers the scanner is run on
Buffers == UNION {[1..n -> Bytes] : n \in 0..MaxBytes} \cup Samples

\* what a program outside the server leaves of a RAW file it rewrites
PreviewVersions ==
    { RawFile(2, <<FF, D8, FF, D9, FF, D8, 0, FF, D9>>), RawFile(1, <<0>>) }

overwrite(rel, version) ==
    /\ rel \in DOMAIN fs
    /\ fs[rel].kind = "file"
    /\ fs[rel] # version
    /\ fs' = [fs EXCEPT ![rel] = version]
    /\ UNCHANGED <<files, fm, mv, resp, scanned, ops, previews, reads, library_root, library_root_canon, tables>>

\* the paths previews are asked for
PreviewPaths == { <<"x">>, <<"a", SLASH, "x">>, MissingPath }

InitPreview ==
    /\ \E data \in Buffers :
          fs = <<"a">> :> DirEntry
               @@ <<"x">> :> RawFile(1, data)
               @@ <<"a", SLASH, "x">> :> RawFile(2, <<FF, D8, 0, FF, D9>>)
    /\ files = EmptyTable
    /\ fm = {}
    /\ mv = {}
    /\ resp = NoResponse
    /\ scanned = <<>>
    /\ ops = 0
    /\ previews = NoPreviews
    /\ reads = 0
    /\ Started(LibraryEnv)
    /\ tables = NewDatabase

NextPreview ==
    \/ \E rel \in PreviewPaths : ensure_preview(rel)
    \/ \E rel \in PreviewPaths, version \in PreviewVersions : overwrite(rel, version)

SpecPreview == InitPreview /\ [][NextPreview]_vars

---------------------------------------------------------------------------
(* The extractor on files that carry a rating in several places.           *)

\* the u32 values the model writes in Long fields: 5, 7, 2^31 and 2^32 - 1
Longs ==
    { U(0, 5), U(0, 7),
      U(SIGN, 0), U(HALF - 1, HALF - 1) }

\* the fields with the tag Rating, in file order
RatingFields ==
    { <<>>, <<Short(<<I(3)>>)>>, <<Short(<<I(0)>>)>>, <<Byte(<<I(9)>>)>>,
      <<SLong(<<I(-1)>>)>>,
      <<Ascii(<<[s |-> "3"]>>)>>, <<Short(<<>>)>>,
      <<Short(<<I(3)>>), Ascii(<<[s |-> "3"]>>)>>,
      <<Ascii(<<[s |-> "3"]>>), SShort(<<I(4)>>)>> }
    \cup { <<Long(<<n>>)>> : n \in Longs }

\* the fields with the tag RatingPercent, in file order
PercentFields ==
    { <<>>, <<Short(<<I(80)>>)>>, <<Short(<<I(60)>>)>>, <<Short(<<I(50)>>)>>,
      <<Short(<<I(49)>>)>>,
      <<Short(<<I(110)>>)>>, <<Short(<<I(1)>>)>>, <<SLong(<<I(-30)>>)>>,
      <<Ascii(<<[s |-> "60"]>>)>>,
      <<Long(<<U(HALF - 1, HALF - 1)>>)>> }

\* the XMP packets in the bytes of the file
Packets ==
    { None, Some(Packet(<<"5">>)), Some(Packet(<<"7">>)),
      Some(Packet(<<" ", "-", "1", " ">>)), Some(Packet(<<"x">>)),
      Some(Packet(<<"9", "9", "9", "9", "9", "9", "9", "9", "9", "9">>)),
      Some([attribute |-> Some(<<"x">>), element |-> Some(<<"4">>)]),
      Some([attribute |-> None, element |-> Some(<<"+", "2">>)]),
      Some([attribute |-> None, element |-> None]) }

\* the XMP packets in the sidecar of the file
Sidecars == { None, Some(Packet(<<"1">>)), Some(Packet(<<"8">>)) }

\* what the files hold
ExtractContents ==
    { [exif |-> Some([NoExif EXCEPT !.rating = rating, !.rating_percent = percent]),
       xmp |-> xmp, sidecar |-> sidecar] :
         rating \in RatingFields, percent \in PercentFields,
         xmp \in Packets, sidecar \in Sidecars }
    \cup { [exif |-> None, xmp |-> xmp, sidecar |-> sidecar] :
              xmp \in Packets, sidecar \in Sidecars }

InitExtract ==
    /\ \E content \in ExtractContents :
          fs = <<"x">> :> [kind |-> "file", size |-> 10, modified |-> 1,
                           content |-> content]
    /\ files = EmptyTable
    /\ fm = {}
    /\ mv = {}
    /\ resp = NoResponse
    /\ scanned = <<>>
    /\ ops = 0
    /\ previews = NoPreviews
    /\ reads = 0
    /\ Started(LibraryEnv)
    /\ tables = NewDatabase

NextExtract ==
    \/ \E path \in DOMAIN fs : file_metadata(path)
    \/ \E r \in fm : file_metadata_extract(r)
    \/ \E r \in fm : file_metadata_upsert(r)

SpecExtract == InitExtract /\ [][NextExtract]_vars

---------------------------------------------------------------------------
(* The extractor on files with GPS and orientation fields of every kind.   *)

\* the values of the fields GPSLatitude and GPSLongitude
Latitudes ==
    { None, Some(Position(33, 30, 0)), Some(Rational(<<Ratio(33, 1), Ratio(30, 1)>>)),
      Some(Rational(<<Ratio(33, 0), Ratio(30, 1), Ratio(0, 0)>>)), Some(Short(<<I(33)>>)) }

Longitudes ==
    { None, Some(Position(70, 0, 30)), Some(Rational(<<>>)) }

\* the texts of the fields GPSLatitudeRef and GPSLongitudeRef
LatitudeRefs == { None, Some(<<"S">>), Some(<<"N">>) }

LongitudeRefs == { None, Some(<<"W">>), Some(<<"E">>) }

\* the values of the field Orientation
Orientations ==
    { None, Some(Short(<<I(0)>>)), Some(Short(<<I(1)>>)), Some(Short(<<I(6)>>)),
      Some(Short(<<I(8)>>)), Some(Short(<<I(9)>>)), Some(SLong(<<I(-1)>>)),
      Some(Long(<<U(0, 8)>>)), Some(Long(<<U(1, 3)>>)), Some(Long(<<U(HALF - 1, HALF - 1)>>)),
      Some(Short(<<>>)), Some(Ascii(<<[s |-> "6"]>>)) }

\* what the files hold
FieldContents ==
    { [exif |-> Some([NoExif EXCEPT !.gps_lat = lat, !.gps_lat_ref = lat_ref,
                                    !.gps_lon = lon, !.gps_lon_ref = lon_ref]),
       xmp |-> None, sidecar |-> None] :
         lat \in Latitudes, lat_ref \in LatitudeRefs,
         lon \in Longitudes, lon_ref \in LongitudeRefs }
    \cup { [exif |-> Some([NoExif EXCEPT !.orientation = orientation,
                                         !.gps_lat = Some(Position(33, 30, 0)),
                                         !.gps_lat_ref = Some(<<"N">>),
                                         !.gps_lon = Some(Position(70, 0, 30)),
                                         !.gps_lon_ref = Some(<<"W">>)]),
            xmp |-> None, sidecar |-> None] : orientation \in Orientations }

\* what a program outside the server leaves of the file it rewrites
FieldVersions ==
    { [kind |-> "file", size |-> 10, modified |-> 2, content |-> ContentB],
      [kind |-> "file", size |-> 10, modified |-> 3, content |-> ContentC] }

rewrite(rel, version) ==
    /\ rel \in DOMAIN fs
    /\ fs[rel].kind = "file"
    /\ fs[rel].modified < version.modified
    /\ fs' = [fs EXCEPT ![rel] = version]
    /\ UNCHANGED <<files, fm, mv, resp, scanned, ops, previews, reads, library_root, library_root_canon, tables>>

InitFields ==
    /\ \E content \in FieldContents :
          fs = <<"x">> :> [kind |-> "file", size |-> 10, modified |-> 1,
                           content |-> content]
    /\ files = EmptyTable
    /\ fm = {}
    /\ mv = {}
    /\ resp = NoResponse
    /\ scanned = <<>>
    /\ ops = 0
    /\ previews = NoPreviews
    /\ reads = 0
    /\ Started(LibraryEnv)
    /\ tables = NewDatabase

NextFields ==
    \/ \E path \in DOMAIN fs : file_metadata(path)
    \/ \E r \in fm : file_metadata_extract(r)
    \/ \E r \in fm : file_metadata_upsert(r)
    \/ \E path \in DOMAIN fs, rating \in RequestRatings : set_rating(path, rating)
    \/ \E rel \in DOMAIN fs, version \in FieldVersions : rewrite(rel, version)

SpecFields == InitFields /\ [][NextFields]_vars

---------------------------------------------------------------------------
(* Tag lists of every shape, sent while files are read, moved and deleted. *)

\* tags in one request
MaxTags == 3

\* the tags clients send: empty, blank, padded, and in both cases
Tags ==
    { <<>>, <<" ">>, <<"r">>, <<"R">>, <<" ", "R">>, <<"x", " ">>, <<"r", " ", "x">> }

TagLists == UNION {[1..n -> Tags] : n \in 0..MaxTags}

\* the lists sent while other requests run
TagRequests ==
    { << <<"r">>, <<" ", "R">>, <<"r", " ", "x">> >>,
      << <<" ", "R">>, <<" ">>, <<"r", " ", "x">>, <<"r">> >>,
      << <<>>, <<"x", " ">> >>,
      <<>> }

\* the paths of the requests
TagPaths == { <<"a", SLASH, "x">>, <<"x">> }

NextTags ==
    \/ \E path \in TagPaths, tags \in TagRequests : set_tags(path, tags)
    \/ \E path \in TagPaths : file_metadata(path)
    \/ \E r \in fm : file_metadata_extract(r)
    \/ \E r \in fm : file_metadata_upsert(r)
    \/ \E path \in TagPaths, rating \in RequestRatings : set_rating(path, rating)
    \/ \E path \in {<<"a">>, <<"a", SLASH, "x">>}, recursive \in {TRUE} :
          fs_delete(path, recursive)
    \/ \E path \in {<<"a">>, <<"a", SLASH, "x">>}, destination \in Destinations :
          fs_move(path, destination)
    \/ \E m \in mv : fs_move_cache(m)
    \/ \E rel \in DOMAIN fs, version \in FileVersions : touch(rel, version)

SpecTags == InitTagged /\ [][NextTags]_vars

---------------------------------------------------------------------------
(* The configuration, and every request of the router that names a path,   *)
(* on servers started with and without a library root.                     *)

\* GET /config: the reader of library_root
get_config ==
    /\ Budget
    /\ ops' = ops + 1
    /\ UNCHANGED <<fs, files, fm, mv, scanned, previews, reads, library_root, library_root_canon, tables>>
    /\ resp' = [Reply("get_config", <<>>, 200) EXCEPT
                   !.body = Some([configured |-> is_some(library_root),
                                  library_root |-> library_root])]

\* fs_mkdir without the test of the configuration
fs_mkdir_unconfigured(path) ==
    LET rel == sanitize_relative(path)
    IN  /\ Budget
        /\ ops' = ops + 1
        /\ UNCHANGED <<files, fm, mv, scanned, previews, reads, library_root, library_root_canon, tables>>
        /\ IF rel = <<>>
           THEN resp' = Reply("fs_mkdir", path, 400) /\ fs' = fs
           ELSE IF ~exists(fs, parent(rel))
           THEN resp' = Reply("fs_mkdir", path, 404) /\ fs' = fs
           ELSE IF ~is_dir(fs, parent(rel)) \/ (exists(fs, rel) /\ ~is_dir(fs, rel))
           THEN resp' = Reply("fs_mkdir", path, 400) /\ fs' = fs
           ELSE /\ fs' = IF exists(fs, rel) THEN fs ELSE (rel :> DirEntry) @@ fs
                /\ resp' = [Reply("fs_mkdir", path, 200) EXCEPT
                               !.body = Some([success |-> TRUE])]

\* fs_mkdir: create_dir_all of a folder whose parent exists
fs_mkdir(path) ==
    LET rel == sanitize_relative(path)
    IN  /\ Budget
        /\ ops' = ops + 1
        /\ UNCHANGED <<files, fm, mv, scanned, previews, reads, library_root, library_root_canon, tables>>
        /\ IF get_root_canon = None
           THEN resp' = Reply("fs_mkdir", path, 409) /\ fs' = fs
           ELSE IF rel = <<>>
           THEN resp' = Reply("fs_mkdir", path, 400) /\ fs' = fs
           ELSE IF ~exists(fs, parent(rel))
           THEN resp' = Reply("fs_mkdir", path, 404) /\ fs' = fs
           ELSE IF ~is_dir(fs, parent(rel)) \/ (exists(fs, rel) /\ ~is_dir(fs, rel))
           THEN \* create_dir_all: NotADirectory, AlreadyExists
                resp' = Reply("fs_mkdir", path, 400) /\ fs' = fs
           ELSE /\ fs' = IF exists(fs, rel) THEN fs ELSE (rel :> DirEntry) @@ fs
                /\ resp' = [Reply("fs_mkdir", path, 200) EXCEPT
                               !.body = Some([success |-> TRUE])]

\* file_download: the bytes of the file as the body; the stream of a
\* directory carries none
file_download(path) ==
    LET rel == sanitize_relative(path)
    IN  /\ Budget
        /\ ops' = ops + 1
        /\ UNCHANGED <<fs, files, fm, mv, scanned, previews, reads, library_root, library_root_canon, tables>>
        /\ IF get_root_canon = None
           THEN resp' = Reply("file_download", path, 409)
           ELSE IF ~exists(fs, rel)
           THEN resp' = Reply("file_download", path, 404)
           ELSE resp' = [Reply("file_download", path, 200) EXCEPT
                            !.body = IF is_dir(fs, rel) THEN None
                                     ELSE Some([filename |-> file_name(rel),
                                                bytes |-> fs[rel].content.data])]

\* file_preview: ensure_preview on the preview path of the request path,
\* and the preview as the body
file_preview(path) ==
    LET rel == sanitize_relative(path)
        preview_path == preview_cache_path(PREVIEW_DIR, path)
    IN  /\ Budget
        /\ ops' = ops + 1
        /\ UNCHANGED <<fs, files, fm, mv, scanned, library_root, library_root_canon, tables>>
        /\ IF get_root_canon = None
           THEN /\ resp' = Reply("file_preview", path, 409)
                /\ UNCHANGED <<previews, reads>>
           ELSE IF ~exists(fs, rel)
           THEN /\ resp' = Reply("file_preview", path, 404)
                /\ UNCHANGED <<previews, reads>>
           ELSE IF is_dir(fs, rel)
           THEN \* ensure_preview: fs::read of a directory fails
                /\ resp' = Reply("file_preview", path,
                                 IF cache_hit(preview_path, metadata(fs, rel).modified)
                                 THEN 200 ELSE 500)
                /\ UNCHANGED <<previews, reads>>
           ELSE IF cache_hit(preview_path, metadata(fs, rel).modified)
           THEN /\ resp' = [Reply("file_preview", path, 200) EXCEPT
                               !.body = Some(previews[preview_path].bytes)]
                /\ UNCHANGED <<previews, reads>>
           ELSE LET data == fs[rel].content.data
                    range == find_largest_jpeg(data)
                IN  /\ reads' = reads + 1
                    /\ IF is_some(range) /\ unwrap(range)[2] > unwrap(range)[1]
                       THEN /\ \E now \in WriteTimes :
                                 previews' =
                                     (preview_path :>
                                        [modified |-> now,
                                         bytes |-> slice(data, unwrap(range)[1],
                                                         unwrap(range)[2]),
                                         source |-> rel])
                                     @@ previews
                            /\ resp' = [Reply("file_preview", path, 200) EXCEPT
                                           !.body = Some(previews'[preview_path].bytes)]
                       ELSE /\ UNCHANGED previews
                            /\ resp' = Reply("file_preview", path, 404)

\* the modification time of a file the server creates
UploadTime == 3

\* a field of a multipart body: the file name it declares and its bytes
Field(name, data) == [file_name |-> name, data |-> data]

RECURSIVE upload_fields(_, _, _)
\* the loop of fs_upload over the fields not yet read: the library it
\* leaves and the status of the response
upload_fields(disk, dest, fields) ==
    IF fields = <<>> THEN [disk |-> disk, status |-> 200]
    ELSE LET field == Head(fields)
             safe_name == IF is_some(field.file_name)
                          THEN file_name(unwrap(field.file_name))
                          ELSE <<>>
             target == join_rel(dest, safe_name)
         IN  IF field.file_name = None \/ safe_name = <<>>
             THEN [disk |-> disk, status |-> 400]
             ELSE IF ~is_supported_raw(safe_name)
             THEN [disk |-> disk, status |-> 400]
             ELSE IF exists(disk, target)
             THEN [disk |-> disk, status |-> 400]
             ELSE upload_fields((target :> RawFile(UploadTime, field.data)) @@ disk,
                                dest, Tail(fields))

\* fs_upload of a multipart body into the folder at path
fs_upload(path, fields) ==
    LET dest_rel == sanitize_relative(path)
        done == upload_fields(fs, dest_rel, fields)
    IN  /\ Budget
        /\ ops' = ops + 1
        /\ UNCHANGED <<files, fm, mv, scanned, previews, reads, library_root, library_root_canon, tables>>
        /\ IF get_root_canon = None
           THEN resp' = Reply("fs_upload", path, 409) /\ fs' = fs
           ELSE IF ~exists(fs, dest_rel)
           THEN resp' = Reply("fs_upload", path, 404) /\ fs' = fs
           ELSE IF ~is_dir(fs, dest_rel)
           THEN resp' = Reply("fs_upload", path, 400) /\ fs' = fs
           ELSE /\ fs' = done.disk
                /\ resp' = [Reply("fs_upload", path, done.status) EXCEPT
                               !.body = IF done.status = 200
                                        THEN Some([success |-> TRUE]) ELSE None]

\* the name of a RAW file
XDNG == <<"x", DOT, "d", "n", "g">>

\* the library of these servers: a folder with one RAW file
ConfigLibrary ==
    <<"a">> :> DirEntry
    @@ join_rel(<<"a">>, XDNG) :> RawFile(1, <<FF, D8, 0, FF, D9>>)

\* the environments the server is started in: no variable set, the library
\* under the first name, a link to it under the second name, a blank first
\* name, a folder that does not exist
Environments ==
    { [RAW_MANAGER_LIBRARY_ROOT |-> None, RAW_LIBRARY_ROOT |-> None],
      [RAW_MANAGER_LIBRARY_ROOT |-> Some(<<" ">> \o LIB \o <<" ">>),
       RAW_LIBRARY_ROOT |-> None],
      [RAW_MANAGER_LIBRARY_ROOT |-> None, RAW_LIBRARY_ROOT |-> Some(LINK)],
      [RAW_MANAGER_LIBRARY_ROOT |-> Some(<<" ">>), RAW_LIBRARY_ROOT |-> Some(LIB)],
      [RAW_MANAGER_LIBRARY_ROOT |-> Some(<<SLASH, "g">>), RAW_LIBRARY_ROOT |-> None] }

\* the paths clients name
ConfigPaths ==
    { join_rel(<<"a">>, XDNG), <<SLASH>> \o join_rel(<<"a">>, XDNG), <<"a">>,
      <<"a", SLASH, "b">>, MissingPath }

\* the multipart bodies clients upload
Uploads ==
    { <<Field(Some(<<"y", DOT, "d", "n", "g">>), <<FF>>)>>,
      <<Field(Some(<<"z", DOT, "d", "n", "g">>), <<FF>>), Field(Some(XDNG), <<0>>)>> }

InitConfig ==
    /\ fs = ConfigLibrary
    /\ files = EmptyTable
    /\ fm = {}
    /\ mv = {}
    /\ resp = NoResponse
    /\ scanned = <<>>
    /\ ops = 0
    /\ previews = NoPreviews
    /\ reads = 0
    /\ \E env \in Environments : Started(env)
    /\ tables = NewDatabase

NextConfig ==
    \/ get_config
    \/ \E path \in ConfigPaths : browse(path)
    \/ \E path \in ConfigPaths : file_metadata(path)
    \/ \E r \in fm : file_metadata_extract(r)
    \/ \E r \in fm : file_metadata_upsert(r)
    \/ \E path \in ConfigPaths : file_preview(path)
    \/ \E path \in ConfigPaths : file_download(path)
    \/ \E path \in ConfigPaths, rating \in RequestRatings : set_rating(path, rating)
    \/ \E path \in ConfigPaths, tags \in RequestTags : set_tags(path, tags)
    \/ \E path \in ConfigPaths : fs_mkdir(path)
    \/ \E path \in ConfigPaths, recursive \in BOOLEAN : fs_delete(path, recursive)
    \/ \E path \in ConfigPaths, destination \in Destinations : fs_move(path, destination)
    \/ \E m \in mv : fs_move_cache(m)
    \/ \E path \in ConfigPaths, fields \in Uploads : fs_upload(path, fields)

SpecConfig == InitConfig /\ [][NextConfig]_vars

---------------------------------------------------------------------------
(* init_db on the databases a server may be started on.                    *)

\* the seconds since the epoch at which the server starts
Times == {1, 2}

\* the columns legacy tables are made of, next to path: three of the
\* current ones and one no current table has
LegacyColumns ==
    { Column("camera_rating", "INTEGER", FALSE, FALSE, None),
      Column("tags", "TEXT", FALSE, FALSE, None),
      Column("file_size", "INTEGER", FALSE, TRUE, None),
      Column("rating", "INTEGER", FALSE, FALSE, None) }

\* path as the key of the table, path as a column like the others, no path
PathColumns ==
    { {Column("path", "TEXT", TRUE, FALSE, None)},
      {Column("path", "TEXT", FALSE, FALSE, None)},
      {} }

\* the columns of the tables named files
Layouts ==
    ({paths \cup others : paths \in PathColumns, others \in SUBSET LegacyColumns}
        \ {{}})
    \cup {CurrentColumns}

\* the values that tell the rows of a table apart
RowValues == {"r1", "r2"}

\* a table of the given columns with one row for each value
Table(columns, values) ==
    [columns |-> columns,
     rows |-> {[c \in {column.name : column \in columns} |-> v] : v \in values}]

\* the tables renamed aside by earlier starts
Aside ==
    { NoTables,
      legacy_name(1) :> Table({Column("rating", "INTEGER", FALSE, FALSE, None)}, {"r1"}) }

\* the databases the server is started on
Databases ==
    Aside
    \cup {(FILES :> Table(columns, values)) @@ aside :
             columns \in Layouts, values \in SUBSET RowValues, aside \in Aside}

\* a start of the server at the time now: main calls init_db, and an error
\* ends the process
startup(now) ==
    LET result == init_db(tables, now)
    IN  /\ Budget
        /\ ops' = ops + 1
        /\ tables' = result.db
        /\ resp' = [Reply("init_db", <<>>, 0) EXCEPT !.body = Some([ok |-> result.ok])]
        /\ UNCHANGED <<fs, files, fm, mv, scanned, previews, reads,
                       library_root, library_root_canon>>

InitSchema ==
    /\ fs = InitialLibrary
    /\ files = EmptyTable
    /\ fm = {}
    /\ mv = {}
    /\ resp = NoResponse
    /\ scanned = <<>>
    /\ ops = 0
    /\ previews = NoPreviews
    /\ reads = 0
    /\ Started(LibraryEnv)
    /\ tables \in Databases

NextSchema == \E now \in Times : startup(now)

SpecSchema == InitSchema /\ [][NextSchema]_vars

---------------------------------------------------------------------------
(* Previews and the requests that put another file at a path: a library    *)
(* with two RAW files of the same name, and the preview an earlier         *)
(* file_preview made of the one in the library root.                       *)

\* the library: a/x.dng, and x.dng unless a request has deleted it
StaleLibrary(deleted) ==
    LET below == <<"a">> :> DirEntry
                 @@ join_rel(<<"a">>, XDNG) :> RawFile(1, <<FF, D8, 0, FF, D9>>)
    IN  IF deleted THEN below ELSE (XDNG :> RawFile(1, <<FF, D8, FF, D9>>)) @@ below

\* the preview directory after file_preview of x.dng at the time 2
StalePreviews ==
    preview_cache_path(PREVIEW_DIR, XDNG) :>
        [modified |-> 2, bytes |-> <<FF, D8, FF, D9>>, source |-> XDNG]

InitStale ==
    /\ \E deleted \in BOOLEAN : fs = StaleLibrary(deleted)
    /\ files = EmptyTable
    /\ fm = {}
    /\ mv = {}
    /\ resp = NoResponse
    /\ scanned = <<>>
    /\ ops = 0
    /\ previews = StalePreviews
    /\ reads = 0
    /\ Started(LibraryEnv)
    /\ tables = NewDatabase

NextStale ==
    \/ \E path \in {XDNG, join_rel(<<"a">>, XDNG)} : file_preview(path)
    \/ \E path \in {XDNG, join_rel(<<"a">>, XDNG), <<"a">>}, recursive \in BOOLEAN :
          fs_delete(path, recursive)
    \/ \E path \in {XDNG, join_rel(<<"a">>, XDNG)}, destination \in {<<>>, <<"a">>} :
          fs_move(path, destination)
    \/ \E m \in mv : fs_move_cache(m)
    \/ \E path \in {<<>>, <<"a">>}, fields \in Uploads : fs_upload(path, fields)

SpecStale == InitStale /\ [][NextStale]_vars

---------------------------------------------------------------------------
(* fs_move of a request that names several paths.  The handler takes the   *)
(* paths in the order of the request; for each it checks, renames and then *)
(* awaits the cache update, and the first error ends the request.  A       *)
(* client sends its next request when the last one was answered.           *)

\* paths in one request
MaxPaths == 3

\* move requests of the client in one behaviour
MaxMoves == 1

\* the position of a request in the loop over payload.paths: about to take
\* the path at index i, with nothing renamed since the last cache update
at_path(paths, dest_rel, i) ==
    [paths |-> paths, dest_rel |-> dest_rel, i |-> i, stage |-> "path",
     rel_str |-> <<>>, target_rel_str |-> <<>>, is_dir |-> FALSE]

\* fs_move up to the loop: the checks of the request and of the destination
fs_move_paths(paths, destination) ==
    LET dest_rel == sanitize_relative(destination)
    IN  /\ ops < MaxMoves
        /\ ops' = ops + 1
        /\ UNCHANGED <<fs, files, fm, scanned, previews, reads, library_root,
                       library_root_canon, tables>>
        /\ IF paths = <<>>
           THEN resp' = Reply("fs_move", destination, 400) /\ mv' = mv
           ELSE IF get_root_canon = None
           THEN resp' = Reply("fs_move", destination, 409) /\ mv' = mv
           ELSE IF ~exists(fs, dest_rel)
           THEN resp' = Reply("fs_move", destination, 404) /\ mv' = mv
           ELSE IF ~is_dir(fs, dest_rel)
           THEN resp' = Reply("fs_move", destination, 400) /\ mv' = mv
           ELSE /\ mv = {}
                /\ mv' = {at_path(paths, dest_rel, 1)}
                /\ resp' = resp

\* the checks of one round without the last: the target may exist
move_check_overwrites(disk, dest_rel, rel) ==
    IF rel = <<>> THEN 400
    ELSE IF ~exists(disk, rel) THEN 404
    ELSE IF is_dir(disk, rel) /\ starts_with(dest_rel, rel) THEN 400
    ELSE 0

\* the checks of one round of the loop: the status of the error, 0 when
\* the path can be renamed
move_check(disk, dest_rel, rel) ==
    IF rel = <<>> THEN 400
    ELSE IF ~exists(disk, rel) THEN 404
    ELSE IF is_dir(disk, rel) /\ starts_with(dest_rel, rel) THEN 400
    ELSE IF exists(disk, join_rel(dest_rel, file_name(rel))) THEN 400
    ELSE 0

\* one round of the loop up to the rename, or the response after the last
fs_move_path(m) ==
    /\ m \in mv
    /\ m.stage = "path"
    /\ UNCHANGED <<files, fm, scanned, ops, previews, reads, library_root,
                   library_root_canon, tables>>
    /\ IF m.i > Len(m.paths)
       THEN /\ resp' = [Reply("fs_move", <<>>, 200) EXCEPT
                           !.body = Some([success |-> TRUE])]
            /\ mv' = mv \ {m}
            /\ fs' = fs
       ELSE LET path == m.paths[m.i]
                rel == sanitize_relative(path)
                name == file_name(rel)
                target_rel == join_rel(m.dest_rel, name)
                status == move_check(fs, m.dest_rel, rel)
            IN  IF status # 0
                THEN resp' = Reply("fs_move", path, status) /\ mv' = mv \ {m} /\ fs' = fs
                ELSE /\ fs' = rename(fs, rel, target_rel)
                     /\ mv' = (mv \ {m}) \cup
                                 {[m EXCEPT !.stage = "cache", !.rel_str = rel,
                                            !.target_rel_str = target_rel,
                                            !.is_dir = is_dir(fs, rel)]}
                     /\ resp' = resp

\* move_meta_prefix or move_meta of the path just renamed; an error of the
\* store ends the request
fs_move_meta(m) ==
    /\ m \in mv
    /\ m.stage = "cache"
    /\ UNCHANGED <<fs, fm, ops, previews, reads, library_root, library_root_canon, tables>>
    /\ LET moved == IF m.is_dir
                    THEN move_meta_prefix(files, m.rel_str, m.target_rel_str)
                    ELSE move_meta(files, m.rel_str, m.target_rel_str)
       IN  /\ files' = moved.table
           /\ IF moved.ok
              THEN /\ mv' = (mv \ {m}) \cup {at_path(m.paths, m.dest_rel, m.i + 1)}
                   /\ resp' = resp
              ELSE /\ mv' = mv \ {m}
                   /\ resp' = Reply("fs_move", m.paths[m.i], 500)
    /\ scanned' = still_scanned(files')

\* the library: the folders a, a/b and _, and the files a/x and a/b/y
MoveLibrary ==
    <<"a">> :> DirEntry
    @@ <<"a", SLASH, "b">> :> DirEntry
    @@ <<"_">> :> DirEntry
    @@ <<"a", SLASH, "x">> :> [kind |-> "file", size |-> 10, modified |-> 1, content |-> ContentA]
    @@ <<"a", SLASH, "b", SLASH, "y">> :>
          [kind |-> "file", size |-> 20, modified |-> 1, content |-> ContentB]

\* the cache after every file of the library has been read
MoveCache ==
    LET record(path) ==
            new_meta(path, read_metadata(MoveLibrary[path].content), None,
                     MoveLibrary[path].size, MoveLibrary[path].modified)
    IN  upsert_file_meta(
            upsert_file_meta(EmptyTable, record(<<"a", SLASH, "x">>)),
            record(<<"a", SLASH, "b", SLASH, "y">>))

\* the paths a client names in a move
MovePaths ==
    { <<"a">>, <<"a", SLASH, "x">>, <<"a", SLASH, "b">>,
      <<"a", SLASH, "b", SLASH, "y">>, <<"_">> }

\* the requests: up to MaxPaths paths, into a/b or into the root
MoveRequests == UNION {[1..n -> MovePaths] : n \in 0..MaxPaths}

MoveDestinations == { <<"a", SLASH, "b">>, <<>> }

InitMove ==
    /\ fs = MoveLibrary
    /\ files = MoveCache
    /\ fm = {}
    /\ mv = {}
    /\ resp = NoResponse
    /\ scanned = [p \in DOMAIN MoveCache |-> token(MoveLibrary, p)]
    /\ ops = 0
    /\ previews = NoPreviews
    /\ reads = 0
    /\ Started(LibraryEnv)
    /\ tables = NewDatabase

NextMove ==
    \/ \E paths \in MoveRequests, destination \in MoveDestinations :
          fs_move_paths(paths, destination)
    \/ \E m \in mv : fs_move_path(m)
    \/ \E m \in mv : fs_move_meta(m)

SpecMove == InitMove /\ [][NextMove]_vars

---------------------------------------------------------------------------
(* The cache on its own: upsert_file_meta applied to records of a client.  *)

\* the tag lists of the records, with the characters JSON text escapes
StoreTags ==
    { <<>>, << <<"k">> >>, << <<"a", QUOTE, "b">>, <<COMMA, "]">> >>,
      << <<BACKSLASH>>, <<"K">>, <<"k", " ">> >> }

\* the records a caller hands to upsert_file_meta
StoreRecords ==
    [path : {<<"a", SLASH, "x">>, <<"b">>},
     camera_rating : {None, Some(5)},
     user_rating : {None},
     tags : StoreTags,
     gps_lat : {Some(-33)}, gps_lon : {None},
     taken_at : {Some(<<"2", "1">>)},
     orientation : {None, Some(0)},
     file_size : {10}, last_modified : {2}]
    \cup
    [path : {<<"a", SLASH, "x">>},
     camera_rating : {None},
     user_rating : {Some(0), Some(5)},
     tags : StoreTags,
     gps_lat : {None}, gps_lon : {Some(70)},
     taken_at : {None},
     orientation : {Some(8)},
     file_size : {0}, last_modified : {1}]

\* upsert_file_meta(pool, &meta), then get_file_meta(pool, &meta.path)
UpsertFull(meta) ==
    /\ Budget
    /\ ops' = ops + 1
    /\ files' = upsert_file_meta(files, meta)
    /\ resp' = [Reply("upsert_file_meta", meta.path, 200) EXCEPT
                   !.body = get_file_meta(files', meta.path),
                   !.existing = Some(meta)]
    /\ UNCHANGED <<fs, fm, mv, scanned, previews, reads, library_root, library_root_canon, tables>>

InitStore ==
    /\ files \in {EmptyTable, InitialCache, TaggedCache}
    /\ fs = InitialLibrary
    /\ fm = {}
    /\ mv = {}
    /\ resp = NoResponse
    /\ scanned = [p \in {} |-> None]
    /\ ops = 0
    /\ previews = NoPreviews
    /\ reads = 0
    /\ Started(LibraryEnv)
    /\ tables = NewDatabase

NextStore == \E meta \in StoreRecords : UpsertFull(meta)

SpecStore == InitStore /\ [][NextStore]_vars

---------------------------------------------------------------------------
(* Properties.  A step of a handler is named by the handler's action, so   *)
(* that a property of the step relates the cache before and after it.      *)

\* every record but that of path is as before
OthersUnchanged(path) ==
    /\ DOMAIN files' \ {path} = DOMAIN files \ {path}
    /\ \A q \in DOMAIN files \ {path} : files'[q] = files[q]

\* the record file_metadata has written and returned for request r
Written(r) == get_file_meta(files', r.path)

\* the record and the response agree on the fields the response carries
Returned(meta) ==
    /\ resp'.status = 200
    /\ is_some(resp'.body)
    /\ unwrap(resp'.body) = FileMetaResponse(meta)

\* C1 as stated: when file_metadata finds a record of P that is not Fresh,
\* the record it writes and returns has the user_rating and the tags (in
\* order) of the record found and camera_rating, gps_lat, gps_lon, taken_at
\* and orientation of the new extraction, and no other record changes.
C1_MergeTakesExtractedOrientation ==
    [][\A r \in fm :
        (file_metadata_upsert(r) /\ is_some(r.existing)) =>
            /\ is_some(Written(r))
            /\ LET rec == unwrap(Written(r))
                   extracted == unwrap(r.extracted)
               IN  /\ rec.user_rating = unwrap(r.existing).user_rating
                   /\ rec.tags = unwrap(r.existing).tags
                   /\ rec.camera_rating = extracted.camera_rating
                   /\ rec.gps_lat = extracted.gps_lat
                   /\ rec.gps_lon = extracted.gps_lon
                   /\ rec.taken_at = extracted.taken_at
                   /\ rec.orientation = extracted.orientation
                   /\ Returned(rec)
            /\ OthersUnchanged(r.path)]_vars

\* C1 as amended: the same, except that the orientation written and
\* returned is that of the new extraction when it has one and 0 when it has
\* none; file_size and last_modified are those the request read from disk.
C1_MergeKeepsUserFields ==
    [][\A r \in fm :
        (file_metadata_upsert(r) /\ is_some(r.existing)) =>
            /\ is_some(Written(r))
            /\ LET rec == unwrap(Written(r))
                   extracted == unwrap(r.extracted)
               IN  /\ rec.user_rating = unwrap(r.existing).user_rating
                   /\ rec.tags = unwrap(r.existing).tags
                   /\ rec.camera_rating = extracted.camera_rating
                   /\ rec.gps_lat = extracted.gps_lat
                   /\ rec.gps_lon = extracted.gps_lon
                   /\ rec.taken_at = extracted.taken_at
                   /\ rec.orientation =
                        (IF is_some(extracted.orientation)
                         THEN extracted.orientation ELSE Some(0))
                   /\ rec.file_size = r.size
                   /\ rec.last_modified = r.modified
                   /\ Returned(rec)
            /\ OthersUnchanged(r.path)]_vars

\* C1, the case: file_metadata has merged an extraction into a record that
\* carried a user rating and was not Fresh, beside another record.
C1_Witness ==
    /\ resp.op = "file_metadata"
    /\ resp.status = 200
    /\ is_some(resp.extracted)
    /\ is_some(resp.existing)
    /\ unwrap(resp.existing).user_rating = Some(2)
    /\ resp.path \in DOMAIN files
    /\ files[resp.path].user_rating = Some(2)
    /\ DOMAIN files \ {resp.path} # {}

\* the columns of a row other than the three named
SameColumns(before, after, changed) ==
    \A c \in DOMAIN before \ changed : after[c] = before[c]

\* C2: on an existing record set_rating (upsertRating) changes only
\* user_rating, file_size and last_modified, and set_tags (upsertTags) only
\* tags, file_size and last_modified; the other columns of the row, the
\* sibling user field included, and every other row are as before.
C2_PartialUpsertFrame ==
    [][ /\ \A path \in RequestPaths, rating \in RequestRatings :
            (set_rating(path, rating) /\ resp'.status = 200 /\ path \in DOMAIN files) =>
                /\ path \in DOMAIN files'
                /\ SameColumns(files[path], files'[path],
                               {"user_rating", "file_size", "last_modified"})
                /\ files'[path].user_rating = rating
                /\ OthersUnchanged(path)
        /\ \A path \in RequestPaths, tags \in RequestTags :
            (set_tags(path, tags) /\ resp'.status = 200 /\ path \in DOMAIN files) =>
                /\ path \in DOMAIN files'
                /\ SameColumns(files[path], files'[path],
                               {"tags", "file_size", "last_modified"})
                /\ row_to_meta(path, files'[path]).tags = unwrap(resp'.body).tags
                /\ OthersUnchanged(path)]_vars

\* C2, the case: set_tags has written the tags of a record that carried a
\* user rating and extracted fields.
C2_Witness ==
    /\ resp.op = "set_tags"
    /\ resp.status = 200
    /\ is_some(resp.existing)
    /\ unwrap(resp.existing).user_rating = Some(2)
    /\ is_some(unwrap(resp.existing).camera_rating)
    /\ files[resp.path].user_rating = Some(2)
    /\ row_to_meta(resp.path, files[resp.path]).tags # <<>>

\* file_metadata(path) has answered from the cache, without the worker
Served(path) ==
    /\ file_metadata(path)
    /\ exists(fs, sanitize_relative(path))
    /\ ~is_dir(fs, sanitize_relative(path))
    /\ fm' = fm

\* file_metadata(path) has handed the file to the worker
Scheduled(path) ==
    /\ file_metadata(path)
    /\ fm' # fm

\* C3: a file whose size or mtime has changed since its metadata was last
\* extracted into the cache is extracted again by the next file_metadata
\* read of its path: a read that answers from the cache finds the file with
\* the size and mtime it had at that extraction.
C3_ChangedFileIsReExtracted ==
    [][\A path \in RequestPaths :
        (Served(path) /\ path \in DOMAIN scanned) =>
            scanned[path] = token(fs, sanitize_relative(path))]_vars

\* the record of path is Fresh against the file on disk, read off the row
FreshRow(path) ==
    /\ path \in DOMAIN files
    /\ files[path].file_size = metadata(fs, sanitize_relative(path)).size
    /\ files[path].last_modified = metadata(fs, sanitize_relative(path)).modified
    /\ files[path].orientation # None

\* C4: file_metadata treats the record of P as Fresh iff its file_size and
\* last_modified equal the live size and mtime and its orientation is
\* present.  When Fresh it returns the cached fields as they are, runs no
\* extraction and writes nothing.  Otherwise it hands the file to the
\* extractor and, with the extractor's result, upserts the record it returns.
C4_FreshRule ==
    [][ /\ \A path \in RequestPaths :
            (file_metadata(path) /\ exists(fs, sanitize_relative(path))
                                 /\ ~is_dir(fs, sanitize_relative(path))) =>
                IF FreshRow(path)
                THEN /\ files' = files
                     /\ fm' = fm
                     /\ resp'.op = "file_metadata" /\ resp'.path = path
                     /\ resp'.extracted = None
                     /\ Returned(row_to_meta(path, files[path]))
                ELSE /\ files' = files
                     /\ \E r \in fm' \ fm :
                            /\ fm' = fm \cup {r}
                            /\ r.path = path
                            /\ r.extracted = None
                            /\ r.existing = get_file_meta(files, path)
        /\ \A r \in fm :
            file_metadata_extract(r) =>
                /\ files' = files
                /\ (exists(fs, r.full_canon) /\ ~is_dir(fs, r.full_canon)) =>
                      \E r2 \in fm' :
                          /\ r2.path = r.path
                          /\ r2.extracted = Some(read_metadata(fs[r.full_canon].content))
        /\ \A r \in fm :
            file_metadata_upsert(r) =>
                /\ is_some(r.extracted)
                /\ is_some(Written(r))
                /\ unwrap(Written(r)).camera_rating = unwrap(r.extracted).camera_rating
                /\ unwrap(Written(r)).file_size = r.size
                /\ unwrap(Written(r)).last_modified = r.modified
                /\ Returned(unwrap(Written(r)))
                /\ resp'.extracted = r.extracted ]_vars

\* C4, the case: file_metadata has answered a read of a Fresh record from
\* the cache.
C4_Witness ==
    /\ resp.op = "file_metadata"
    /\ resp.status = 200
    /\ resp.extracted = None
    /\ is_some(resp.existing)
    /\ resp.path \in DOMAIN files
    /\ unwrap(resp.body).camera_rating = files[resp.path].camera_rating

\* C5: after fs_move has moved a file from P to Q and succeeded, there is
\* no record at P; the record that was at P is at Q with every column as it
\* was; and every other record is as before.
C5_FileMoveRewritesPath ==
    [][\A m \in mv :
        (fs_move_cache(m) /\ ~m.is_dir /\ resp'.status = 200) =>
            LET P == m.rel_str
                Q == m.target_rel_str
            IN  /\ get_file_meta(files', P) = None
                /\ P \in DOMAIN files =>
                      /\ Q \in DOMAIN files'
                      /\ files'[Q] = files[P]
                      /\ DOMAIN files' = (DOMAIN files \ {P}) \cup {Q}
                      /\ \A q \in DOMAIN files \ {P} : files'[q] = files[q]
                /\ P \notin DOMAIN files => files' = files]_vars

\* C5, the case: fs_move has moved a file whose record carried a user
\* rating, and the record is at the new path.
C5_Witness ==
    /\ resp.op = "fs_move"
    /\ resp.status = 200
    /\ is_some(resp.existing)
    /\ unwrap(resp.existing).user_rating = Some(2)
    /\ resp.path \notin DOMAIN files
    /\ \E q \in DOMAIN files :
          /\ files[q].user_rating = Some(2)
          /\ file_name(q) = file_name(resp.path)
          /\ q \in DOMAIN fs

\* path p begins with prefix + "/", compared character by character
Under(p, prefix) ==
    /\ Len(p) > Len(prefix)
    /\ SubSeq(p, 1, Len(prefix) + 1) = prefix \o <<SLASH>>

\* what follows prefix + "/" in p
Suffix(p, prefix) == SubSeq(p, Len(prefix) + 2, Len(p))

\* fs_move has run movePrefix(m.rel_str, m.target_rel_str) and succeeded
MovedPrefix(m) ==
    /\ fs_move_cache(m)
    /\ m.is_dir
    /\ resp'.status = 200

\* C6: for every record whose path is fromPrefix + "/" + s, after
\* movePrefix(fromPrefix, toPrefix) there is no record at that path and the
\* record at toPrefix + "/" + s is the original one, every column unchanged.
C6_MovePrefixKeepsSuffix ==
    [][\A m \in mv :
        MovedPrefix(m) =>
            \A p \in DOMAIN files :
                Under(p, m.rel_str) =>
                    LET q == join2(m.target_rel_str, Suffix(p, m.rel_str))
                    IN  /\ p \notin DOMAIN files'
                        /\ q \in DOMAIN files'
                        /\ files'[q] = files[p]]_vars

\* fs_delete has removed the directory of path with all below it
DeletedPrefix(path) ==
    /\ fs_delete(path, TRUE)
    /\ path # <<>>
    /\ path \in DOMAIN fs
    /\ is_dir(fs, path)

\* C7: deletePrefix(prefix) removes exactly the records whose path equals
\* prefix or begins with prefix + "/" and leaves every other record as it
\* was, whatever the letter case of the stored paths and whether or not the
\* prefix contains '_' or '%'.
C7_DeletePrefixExact ==
    [][\A path \in DOMAIN fs :
        DeletedPrefix(path) =>
            /\ DOMAIN files' =
                  {p \in DOMAIN files : ~(p = path \/ Under(p, path))}
            /\ \A p \in DOMAIN files' : files'[p] = files[p]]_vars

\* C8: movePrefix(fromPrefix, toPrefix) changes only records whose path
\* begins with fromPrefix + "/": every other record keeps its path and all
\* its columns.
C8_MovePrefixFrame ==
    [][\A m \in mv :
        MovedPrefix(m) =>
            \A p \in DOMAIN files :
                ~Under(p, m.rel_str) =>
                    /\ p \in DOMAIN files'
                    /\ files'[p] = files[p]]_vars

\* fs_delete of path has succeeded
Deleted(path, recursive) ==
    /\ fs_delete(path, recursive)
    /\ resp'.status = 200

\* C9: after fs_delete has deleted the file at P there is no record at P;
\* after a recursive fs_delete of directory D there is no record at D or
\* under D + "/"; the records of files that are still on disk are as before.
C9_DeleteRemovesOnlyDeleted ==
    [][\A path \in DOMAIN fs, recursive \in BOOLEAN :
        Deleted(path, recursive) =>
            /\ get_file_meta(files', path) = None
            /\ is_dir(fs, path) /\ recursive =>
                  \A p \in DOMAIN files' : ~Under(p, path)
            /\ \A p \in DOMAIN files :
                  sanitize_relative(p) \in DOMAIN fs' =>
                      /\ p \in DOMAIN files'
                      /\ files'[p] = files[p]]_vars

\* the user fields of a record as get returns them
UserFields(path, row) ==
    [user_rating |-> row_to_meta(path, row).user_rating,
     tags |-> row_to_meta(path, row).tags]

\* the user fields request r found when it read the cache
SnapshotUserFields(r) ==
    IF is_some(r.existing)
    THEN [user_rating |-> unwrap(r.existing).user_rating,
          tags |-> unwrap(r.existing).tags]
    ELSE [user_rating |-> None, tags |-> <<>>]

\* C10 as stated: no step of a file_metadata resync changes the user_rating
\* or the tags of a record, however the resync interleaves with set_rating
\* and set_tags: the record holds the last acknowledged edit until the next
\* edit, move or delete.
C10_ResyncNeverLosesEdit ==
    [][ /\ \A path \in RequestPaths :
            file_metadata(path) => files' = files
        /\ \A r \in fm :
            file_metadata_extract(r) => files' = files
        /\ \A r \in fm :
            file_metadata_upsert(r) =>
                \A p \in DOMAIN files :
                    /\ p \in DOMAIN files'
                    /\ UserFields(p, files'[p]) = UserFields(p, files[p]) ]_vars

\* C10 as amended: a resync leaves the user fields of every record as they
\* are, except that a resync of P which read the cache before an edit of P
\* was acknowledged writes back the user_rating and tags it read then.
C10_ResyncWritesSnapshot ==
    [][ /\ \A path \in RequestPaths :
            file_metadata(path) => files' = files
        /\ \A r \in fm :
            file_metadata_extract(r) => files' = files
        /\ \A r \in fm :
            file_metadata_upsert(r) =>
                \A p \in DOMAIN files :
                    /\ p \in DOMAIN files'
                    /\ UserFields(p, files'[p]) =
                          IF p = r.path
                             /\ SnapshotUserFields(r) # UserFields(p, files[p])
                          THEN SnapshotUserFields(r)
                          ELSE UserFields(p, files[p]) ]_vars

\* C10, the case: a resync of a path has run after set_tags of the path was
\* acknowledged, and the record holds the tags of the edit.
C10_Witness ==
    /\ resp.op = "file_metadata"
    /\ resp.status = 200
    /\ is_some(resp.extracted)
    /\ resp.path \in DOMAIN files
    /\ UserFields(resp.path, files[resp.path]).tags = << <<"R">>, <<"x">> >>
    /\ unwrap(resp.body).tags = << <<"R">>, <<"x">> >>

\* C11, for the move of a file: under every interleaving of an fs_move of
\* the file at P to Q with file_metadata, set_rating and set_tags requests
\* on P or Q, once fs_move has returned the user_rating and tags that were
\* recorded for the file are in the record at Q.
C11_MoveKeepsUserFields ==
    [][\A m \in mv :
        (fs_move_cache(m) /\ ~m.is_dir /\ m.rel_str \in DOMAIN files) =>
            LET P == m.rel_str
                Q == m.target_rel_str
            IN  /\ Q \in DOMAIN files'
                /\ UserFields(Q, files'[Q]) = UserFields(P, files[P])]_vars

\* the rows the statement of fs_move's cache update selects
Selected(m) ==
    IF m.is_dir
    THEN {p \in DOMAIN files :
            sql_like(trim_matches(m.rel_str, SLASH) \o <<SLASH, "%">>, p)}
    ELSE DOMAIN files \cap {m.rel_str}

\* the path the statement gives the selected row p
NewPath(m, p) ==
    IF m.is_dir
    THEN trim_matches(m.target_rel_str, SLASH) \o <<SLASH>>
            \o sql_substr(p, len(trim_matches(m.rel_str, SLASH)) + 2)
    ELSE m.target_rel_str

C13_UpsertFullRoundTrip ==
    [][\A meta \in StoreRecords :
        UpsertFull(meta) =>
            /\ get_file_meta(files', meta.path) = Some(meta)
            /\ \A c \in DOMAIN files'[meta.path] :
                  files'[meta.path][c] = row_of(meta)[c]
            /\ OthersUnchanged(meta.path)]_vars

\* C13, the case: upsertFull has replaced a record that had other tags and
\* another rating by one whose tags hold a quote and a comma, and get
\* returns it.
C13_Witness ==
    /\ resp.op = "upsert_file_meta"
    /\ ops = 2
    /\ resp.body = resp.existing
    /\ unwrap(resp.body).tags = << <<"a", QUOTE, "b">>, <<COMMA, "]">> >>
    /\ unwrap(resp.body).user_rating = Some(5)
    /\ Cardinality(DOMAIN files) = 2

\* the request answered last was op on path, it succeeded and it found no
\* record of path: the record of path is the one it created
Created(op, path) ==
    /\ resp.op = op
    /\ resp.status = 200
    /\ resp.path = path
    /\ resp.existing = None

\* C14: on a path without a record, a rating-only upsert followed by a
\* tags-only upsert, and the two in the other order, leave a record with
\* the given rating and the given tags; a file_metadata read after either
\* single write returns the written field together with the freshly
\* extracted fields.
C14_PartialUpsertsCompose ==
    [][ /\ \A path \in {resp.path}, tags \in RequestTags :
            (Created("set_rating", path) /\ set_tags(path, tags)
                                         /\ resp'.status = 200) =>
                /\ is_some(Written([path |-> path]))
                /\ unwrap(Written([path |-> path])).user_rating
                      = unwrap(resp.body).user_rating
                /\ unwrap(Written([path |-> path])).tags
                      = normalize_tags(tags, {}, <<>>)
        /\ \A path \in {resp.path}, rating \in RequestRatings :
            (Created("set_tags", path) /\ set_rating(path, rating)
                                       /\ resp'.status = 200) =>
                /\ is_some(Written([path |-> path]))
                /\ unwrap(Written([path |-> path])).user_rating = rating
                /\ unwrap(Written([path |-> path])).tags = unwrap(resp.body).tags
        /\ \A path \in {resp.path} :
            ((Created("set_rating", path) \/ Created("set_tags", path))
                /\ exists(fs, sanitize_relative(path))
                /\ ~is_dir(fs, sanitize_relative(path))
                /\ file_metadata(path)) =>
                \E r \in fm' \ fm :
                    /\ r.path = path
                    /\ r.existing = get_file_meta(files, path)
        /\ \A r \in fm :
            (file_metadata_upsert(r) /\ is_some(r.existing)
                /\ unwrap(r.existing).orientation = None) =>
                /\ resp'.status = 200
                /\ unwrap(resp'.body).user_rating = unwrap(r.existing).user_rating
                /\ unwrap(resp'.body).tags = unwrap(r.existing).tags
                /\ unwrap(resp'.body).camera_rating = unwrap(r.extracted).camera_rating
                /\ unwrap(resp'.body).taken_at = unwrap(r.extracted).taken_at
                /\ unwrap(resp'.body).gps_lat = unwrap(r.extracted).gps_lat
                /\ unwrap(resp'.body).gps_lon = unwrap(r.extracted).gps_lon ]_vars

\* C14, the case: set_tags has followed the set_rating that created the
\* record, and the record holds the rating and the tags.
C14_Witness ==
    /\ resp.op = "set_tags"
    /\ resp.status = 200
    /\ is_some(resp.existing)
    /\ unwrap(resp.existing).orientation = None
    /\ unwrap(resp.existing).tags = <<>>
    /\ get_file_meta(files, resp.path) =
          Some([unwrap(resp.existing) EXCEPT !.tags = << <<"R">>, <<"x">> >>])
    /\ unwrap(get_file_meta(files, resp.path)).user_rating = Some(2)

\* the entries of the listing browse has returned
Entries == unwrap(resp'.body).entries

\* C15: browse never runs the extractor and never writes to the cache: the
\* records are the same before and after it; for each RAW file it lists it
\* reports needs_scan = true iff the path has no record or the record is
\* not Fresh against the live size and mtime, and it returns the cached
\* fields as they are (none when there is no record).
C15_BrowseAdvisory ==
    [][\A path \in BrowsePaths :
        browse(path) =>
            /\ files' = files
            /\ fm' = fm
            /\ scanned' = scanned
            /\ fs' = fs
            /\ resp'.status = 200 =>
                  /\ \A p \in DOMAIN fs :
                        (parent(p) = sanitize_relative(path) /\ fs[p].kind = "file"
                            /\ is_supported_raw(p)) =>
                            \E i \in DOMAIN Entries : Entries[i].path = p
                  /\ \A i \in DOMAIN Entries :
                        LET e == Entries[i]
                        IN  e.kind = "file" =>
                              /\ e.needs_scan = ~FreshRow(e.path)
                              /\ e.size = Some(fs[e.path].size)
                              /\ e.modified = Some(fs[e.path].modified)
                              /\ IF e.path \in DOMAIN files
                                 THEN LET rec == row_to_meta(e.path, files[e.path])
                                      IN  /\ e.camera_rating = rec.camera_rating
                                          /\ e.user_rating = rec.user_rating
                                          /\ e.tags = rec.tags
                                          /\ e.gps_lat = rec.gps_lat
                                          /\ e.gps_lon = rec.gps_lon
                                          /\ e.taken_at = rec.taken_at
                                          /\ e.orientation = rec.orientation
                                 ELSE /\ e.camera_rating = None
                                      /\ e.user_rating = None
                                      /\ e.tags = <<>>
                                      /\ e.orientation = None]_vars

\* C15, the case: browse has listed a folder with a RAW file whose record
\* is Fresh and one whose record, made by set_rating, is not.
C15_Witness ==
    /\ resp.op = "browse"
    /\ resp.status = 200
    /\ \E i, j \in DOMAIN unwrap(resp.body).entries :
          LET e == unwrap(resp.body).entries[i]
              f == unwrap(resp.body).entries[j]
          IN  /\ e.kind = "file" /\ ~e.needs_scan /\ e.camera_rating = Some(3)
              /\ f.kind = "file" /\ f.needs_scan /\ f.user_rating = Some(2)
                 /\ f.size = Some(files[f.path].file_size)
                 /\ f.modified = Some(files[f.path].last_modified)

\* the preview path of rel holds a file not older than the file at rel
Hit(rel) ==
    LET preview_path == preview_cache_path(PREVIEW_DIR, rel)
    IN  /\ preview_path \in DOMAIN previews
        /\ previews[preview_path].modified >= fs[rel].modified

\* C16: ensure_preview is a no-op returning success whenever the destination
\* exists with a modification time greater than or equal to the source's:
\* the destination's bytes are unchanged and the source is not read; when
\* the destination is missing or older than the source, the source is read
\* again.
C16_PreviewCacheHit ==
    [][\A rel \in PreviewPaths :
        (ensure_preview(rel) /\ rel \in DOMAIN fs) =>
            IF Hit(rel)
            THEN /\ previews' = previews
                 /\ reads' = reads
                 /\ resp'.status = 200
                 /\ resp'.body = Some(TRUE)
            ELSE reads' = reads + 1]_vars

\* C16, the case: ensure_preview has answered from a destination as old as
\* the source without reading the source a second time.
C16_Witness ==
    /\ resp.op = "ensure_preview"
    /\ resp.body = Some(TRUE)
    /\ ops = 2
    /\ reads = 1
    /\ resp.path \in DOMAIN fs
    /\ preview_cache_path(PREVIEW_DIR, resp.path) \in DOMAIN previews
    /\ previews[preview_cache_path(PREVIEW_DIR, resp.path)].modified
          = fs[resp.path].modified

\* the ranges of data that begin with a start marker and end with an end
\* marker that follows it, as offsets (start, end) from 0, end excluded
MarkerRanges(data) ==
    {r \in (0..Len(data)) \X (0..Len(data)) :
        /\ r[1] + 4 <= r[2]
        /\ data[r[1] + 1] = FF /\ data[r[1] + 2] = D8
        /\ data[r[2] - 1] = FF /\ data[r[2]] = D9}

\* the longest of them
LongestRanges(data) ==
    {r \in MarkerRanges(data) :
        \A q \in MarkerRanges(data) : q[2] - q[1] <= r[2] - r[1]}

\* C17: on a cache miss ensure_preview writes exactly the longest
\* start-marker..end-marker byte range of the source, markers included and
\* bytes verbatim, and returns true; when the buffer has no start marker
\* followed by an end marker it returns false and writes nothing.
C17_WritesLongestRange ==
    [][\A rel \in PreviewPaths :
        (ensure_preview(rel) /\ rel \in DOMAIN fs /\ ~Hit(rel)) =>
            LET data == fs[rel].content.data
                preview_path == preview_cache_path(PREVIEW_DIR, rel)
            IN  IF MarkerRanges(data) = {}
                THEN resp'.body = Some(FALSE) /\ previews' = previews
                ELSE /\ resp'.body = Some(TRUE)
                     /\ preview_path \in DOMAIN previews'
                     /\ \E r \in LongestRanges(data) :
                           previews'[preview_path].bytes = slice(data, r[1], r[2])]_vars

\* the names in the preview directory that hold a preview made for rel
NamesOf(dir, rel) == {n \in DOMAIN dir : dir[n].source = rel}

Extracted == is_some(resp.extracted) /\ resp.path \in DOMAIN fs

Content == fs[resp.path].content

\* what each source of a rating yields for content c, in the order of the
\* chain: rating tag, rating-percent tag, embedded XMP, sidecar
Yields(c) ==
    LET rating == IF is_some(c.exif)
                  THEN last_parsed(unwrap(c.exif).rating, None) ELSE None
        percent == IF is_some(c.exif)
                   THEN last_parsed(unwrap(c.exif).rating_percent, None) ELSE None
    IN  << IF is_some(rating) THEN Some(clamp(unwrap(rating), 0, 5)) ELSE None,
           IF is_some(percent)
           THEN Some(clamp(round_div20(unwrap(percent)), 0, 5)) ELSE None,
           extract_xmp_rating_from_bytes(c.xmp),
           extract_xmp_rating_from_bytes(c.sidecar) >>

\* C19: the extracted camera rating is the first hit of the chain rating
\* tag, rating-percent tag (round(percent/20)), embedded XMP Rating, sidecar
\* Rating, with no merge across sources: a later source counts only when
\* every earlier source yields no rating.
C19_RatingIsFirstHit ==
    Extracted =>
        LET hits == {i \in 1..4 : is_some(Yields(Content)[i])}
            camera_rating == unwrap(resp.extracted).camera_rating
        IN  IF hits = {} THEN camera_rating = None
            ELSE \E i \in hits :
                    /\ \A j \in hits : i <= j
                    /\ camera_rating = Yields(Content)[i]

\* C19, the case: a file with rating tag 3 and rating-percent 80, an XMP
\* packet and a sidecar has been read, and the rating is 3.
C19_Witness ==
    /\ Extracted
    /\ resp.status = 200
    /\ is_some(Content.exif)
    /\ unwrap(Content.exif).rating = <<Short(<<I(3)>>)>>
    /\ unwrap(Content.exif).rating_percent = <<Short(<<I(80)>>)>>
    /\ is_some(Content.xmp) /\ is_some(Content.sidecar)
    /\ unwrap(resp.extracted).camera_rating = Some(3)

IntegerTypes == {"Byte", "Short", "Long", "SShort", "SLong"}

\* max(0, min(5, v)) of the first component v of an integer value
Clamped(value) ==
    IF value.type = "Long"
    THEN (IF value.v[1].hi > 0 \/ value.v[1].lo >= 5 THEN 5 ELSE value.v[1].lo)
    ELSE clamp(value.v[1].n, 0, 5)

\* max(0, min(5, round(v / 20))) of the first component v
ClampedPercent(value) ==
    IF value.type = "Long"
    THEN (IF value.v[1].hi > 0 \/ value.v[1].lo >= 90 THEN 5
          ELSE round_div20(value.v[1].lo))
    ELSE clamp(round_div20(value.v[1].n), 0, 5)

\* text made of digits only
IsNumber(text) == text # <<>> /\ \A i \in DOMAIN text : text[i] \in Digits

\* max(0, min(5, v)) of the number v that text writes
ClampedNumber(text) ==
    IF \E i \in DOMAIN text : digit(text[i]) > 0 /\ (i < Len(text) \/ digit(text[i]) >= 5)
    THEN 5 ELSE digit(text[Len(text)])

\* C20: every extracted rating is clamped to [0,5]: for every value v that
\* a rating tag, a rating-percent tag or an XMP Rating carries, unsigned
\* 32-bit tag values above 2^31 - 1 included, the result is
\* max(0, min(5, v)), resp. of round(v/20); every v >= 5 yields 5 and the
\* result is never outside 0..5.
C20_RatingsClamped ==
    Extracted =>
        LET camera_rating == unwrap(resp.extracted).camera_rating
            exif == unwrap(Content.exif)
            xmp == unwrap(Content.xmp)
            Single(fields) ==
                Len(fields) = 1 /\ fields[1].type \in IntegerTypes /\ fields[1].v # <<>>
        IN  /\ is_some(camera_rating) => unwrap(camera_rating) \in 0..5
            /\ (is_some(Content.exif) /\ Single(exif.rating)) =>
                  camera_rating = Some(Clamped(exif.rating[1]))
            /\ (is_some(Content.exif) /\ exif.rating = <<>>
                  /\ Single(exif.rating_percent)) =>
                  camera_rating = Some(ClampedPercent(exif.rating_percent[1]))
            /\ (Content.exif = None /\ is_some(Content.xmp) /\ is_some(xmp.attribute)
                  /\ IsNumber(unwrap(xmp.attribute))) =>
                  camera_rating = Some(ClampedNumber(unwrap(xmp.attribute)))

\* both coordinates or neither
Paired(rec) == is_some(rec.gps_lat) <=> is_some(rec.gps_lon)

\* the record of the request r after the worker has read the file
Read(r) == CHOOSE q \in fm' : q.task = r.task

\* C21: the extractor yields GPS only when latitude, latitude reference,
\* longitude and longitude reference are all present, so gps_lat is present
\* iff gps_lon is present in every extraction result and in every stored
\* record; the latitude is negated iff its reference is south and the
\* longitude iff its reference is west.
C21_GpsPairedAndSigned ==
    /\ [](/\ \A p \in DOMAIN files : Paired(files[p])
          /\ \A r \in fm : is_some(r.extracted) => Paired(unwrap(r.extracted))
          /\ is_some(resp.extracted) => Paired(unwrap(resp.extracted)))
    /\ [][\A r \in fm :
            (file_metadata_extract(r) /\ r.full_canon \in DOMAIN fs
                /\ is_some(fs[r.full_canon].content.exif)) =>
               LET exif == unwrap(fs[r.full_canon].content.exif)
                   extracted == unwrap(Read(r).extracted)
                   lat == unwrap(gps_value(unwrap(exif.gps_lat)))
                   lon == unwrap(gps_value(unwrap(exif.gps_lon)))
               IN  IF is_some(extracted.gps_lat)
                   THEN /\ is_some(exif.gps_lat) /\ is_some(exif.gps_lat_ref)
                        /\ is_some(exif.gps_lon) /\ is_some(exif.gps_lon_ref)
                        /\ extracted.gps_lat =
                              Some(IF unwrap(exif.gps_lat_ref) = <<"S">> THEN -lat ELSE lat)
                        /\ extracted.gps_lon =
                              Some(IF unwrap(exif.gps_lon_ref) = <<"W">> THEN -lon ELSE lon)
                   ELSE \/ exif.gps_lat = None \/ exif.gps_lat_ref = None
                        \/ exif.gps_lon = None \/ exif.gps_lon_ref = None
                        \/ gps_value(unwrap(exif.gps_lat)) = None
                        \/ gps_value(unwrap(exif.gps_lon)) = None]_vars

\* C21, the case: a position 33 degrees 30 minutes south, 70 degrees 30
\* seconds east has been extracted and stored: the latitude is negative,
\* the longitude is not.
C21_Witness ==
    /\ resp.op = "file_metadata"
    /\ resp.status = 200
    /\ is_some(resp.extracted)
    /\ unwrap(resp.extracted).gps_lat = Some(-(33 * DEGREE + 30 * MINUTE))
    /\ unwrap(resp.extracted).gps_lon = Some(70 * DEGREE + 30)
    /\ files[resp.path].gps_lat = Some(-(33 * DEGREE + 30 * MINUTE))

\* C22: the orientation the extractor produces is absent or an integer in
\* 1..8: a tag value of 0, 9 or any other value outside [1,8] is reported as
\* absent, and a value inside is reported as it is.
C22_OrientationInRange ==
    /\ [](\A r \in fm :
            is_some(r.extracted) =>
               \/ unwrap(r.extracted).orientation = None
               \/ unwrap(unwrap(r.extracted).orientation) \in 1..8)
    /\ [][\A r \in fm :
            (file_metadata_extract(r) /\ r.full_canon \in DOMAIN fs
                /\ is_some(fs[r.full_canon].content.exif)) =>
               LET tag == unwrap(fs[r.full_canon].content.exif).orientation
                   value == unwrap(tag)
                   orientation == unwrap(Read(r).extracted).orientation
                   InRange ==
                       /\ is_some(tag)
                       /\ value.v # <<>>
                       /\ IF value.type = "Long"
                          THEN value.v[1].hi = 0 /\ value.v[1].lo \in 1..8
                          ELSE value.type \in IntegerTypes /\ value.v[1].n \in 1..8
               IN  IF InRange
                   THEN orientation =
                           Some(IF value.type = "Long" THEN value.v[1].lo ELSE value.v[1].n)
                   ELSE orientation = None]_vars

\* C22, the case: a file with orientation tag 9 has been read, and the
\* extraction has no orientation.
C22_Witness ==
    /\ is_some(resp.extracted)
    /\ resp.path \in DOMAIN fs
    /\ is_some(fs[resp.path].content.exif)
    /\ unwrap(fs[resp.path].content.exif).orientation = Some(Short(<<I(9)>>))
    /\ fs[resp.path].modified = 1
    /\ unwrap(resp.extracted).orientation = None

\* C23: extraction fails only when the file cannot be opened: for a file
\* that opens, whatever its container holds, read_metadata succeeds, with
\* the fields it could not derive absent; when it fails, file_metadata
\* returns an Internal error and the cache is left exactly as it was.
C23_ExtractionFailure ==
    [][\A r \in fm :
        file_metadata_extract(r) =>
            IF r.full_canon \in DOMAIN fs
            THEN /\ resp' = resp
                 /\ \E q \in fm' :
                       /\ q.task = r.task
                       /\ is_some(q.extracted)
                       /\ (fs[r.full_canon].kind = "file"
                              /\ fs[r.full_canon].content = ContentC) =>
                             q.extracted = Some(AllAbsent)
            ELSE /\ resp'.op = "file_metadata"
                 /\ resp'.path = r.path
                 /\ resp'.status = 500
                 /\ files' = files
                 /\ fm' = fm \ {r}]_vars

\* C23, the case: the file of a file_metadata request was gone when the
\* worker came to open it; the request has failed with an Internal error
\* and no record of the file has come into the cache.
C23_Witness ==
    /\ resp.op = "file_metadata"
    /\ resp.status = 500
    /\ ~exists(fs, sanitize_relative(resp.path))
    /\ get_file_meta(files, resp.path) = None

\* no empty or untrimmed entry, and no two entries equal without case
Normalised(tags) ==
    /\ \A i \in DOMAIN tags : tags[i] # <<>> /\ trim(tags[i]) = tags[i]
    /\ \A i, j \in DOMAIN tags : i # j => lowercase(tags[i]) # lowercase(tags[j])

\* the entries of a request that are the first of their tag
Firsts(request) ==
    {i \in DOMAIN request :
        /\ trim(request[i]) # <<>>
        /\ \A j \in 1..(i - 1) :
              lowercase(trim(request[j])) # lowercase(trim(request[i]))}

\* tags is made of the first occurrences in request, in request order
KeepsFirsts(request, tags) ==
    /\ Len(tags) = Cardinality(Firsts(request))
    /\ \A i \in Firsts(request) :
          tags[Cardinality({j \in Firsts(request) : j <= i})] = trim(request[i])

\* C24: after any sequence of set_tags, set_rating, file_metadata, move and
\* delete operations every record's tags list has no empty or untrimmed
\* entry and no two entries that are equal when compared without case;
\* set_tags keeps the first occurrence of each tag in request order, stores
\* what it answers, and its normalisation of a normalised list is that list.
C24_TagsNormalised ==
    /\ \A request \in TagLists :
          LET tags == normalize_tags(request, {}, <<>>)
          IN  /\ Normalised(tags)
              /\ KeepsFirsts(request, tags)
              /\ normalize_tags(tags, {}, <<>>) = tags
    /\ [](\A p \in DOMAIN files : Normalised(row_to_meta(p, files[p]).tags))
    /\ [][(resp'.op = "set_tags" /\ resp'.status = 200 /\ ops' = ops + 1) =>
            /\ resp'.path \in DOMAIN files'
            /\ row_to_meta(resp'.path, files'[resp'.path]).tags = unwrap(resp'.body).tags
            /\ Normalised(unwrap(resp'.body).tags)]_vars

\* C24, the case: set_tags has been sent "r", " R" and "r x" in some order
\* with blanks, and the record holds two tags.
C24_Witness ==
    /\ resp.op = "set_tags"
    /\ resp.status = 200
    /\ unwrap(resp.body).tags = << <<"R">>, <<"r", " ", "x">> >>
    /\ row_to_meta(resp.path, files[resp.path]).tags = << <<"R">>, <<"r", " ", "x">> >>

\* a rating outside 0..5
OutOfRange(rating) == is_some(rating) /\ unwrap(rating) \notin 0..5

\* every record's user_rating is absent or in 0..5
RatingsInRange ==
    \A p \in DOMAIN files :
        files[p].user_rating = None \/ unwrap(files[p].user_rating) \in 0..5

LibraryRequests ==
    { "browse", "file_metadata", "file_preview", "file_download", "set_rating",
      "set_tags", "fs_mkdir", "fs_delete", "fs_move", "fs_upload" }

\* C26: while no library root is configured, every request that names a
\* path is answered with Conflict (409) and leaves the cache, the library
\* on disk and the preview directory as they were, with nothing in flight
C26_UnconfiguredIsConflict ==
    [][(library_root_canon = None /\ ops' = ops + 1 /\ resp'.op # "get_config")
         => /\ resp'.op \in LibraryRequests
            /\ resp'.status = 409
            /\ resp'.body = None
            /\ files' = files
            /\ fs' = fs
            /\ previews' = previews
            /\ fm' = {}
            /\ mv' = {}]_vars

\* C26 witness: a server without a root has refused its last request, a
\* delete, with the library and the cache as they were at the start
C26_Witness ==
    /\ library_root_canon = None
    /\ ops = MaxOps
    /\ resp.op = "fs_delete"
    /\ resp.status = 409
    /\ fs = ConfigLibrary
    /\ files = EmptyTable

\* C27: in every state the raw root and the canonical root are both present
\* or both absent, the canonical root is the raw root canonicalised, no step
\* changes either of them, and what the reader of the raw root (GET /config)
\* answers agrees with what the readers of the canonical root see, also
\* while other requests are in flight
C27_RootsPaired ==
    /\ [](is_some(library_root) <=> is_some(library_root_canon))
    /\ [](is_some(library_root)
            => library_root_canon = canonicalize_root(unwrap(library_root)))
    /\ [][/\ library_root' = library_root
          /\ library_root_canon' = library_root_canon
          /\ (ops' = ops + 1 /\ resp'.op = "get_config")
               => /\ unwrap(resp'.body).configured = is_some(get_root_canon)
                  /\ unwrap(resp'.body).library_root = library_root]_vars

\* C27 witness: a server started on a link to the library answers GET
\* /config while a file_metadata request is suspended in its worker
C27_Witness ==
    /\ library_root = Some(LINK)
    /\ library_root_canon = Some(LIB)
    /\ fm # {}
    /\ resp.op = "get_config"
    /\ unwrap(resp.body).configured

\* the row without the columns that are not in names
project(row, names) == [c \in names \cap DOMAIN row |-> row[c]]

\* the table files has path as its key and the nine other columns
CurrentSchema(db) ==
    /\ FILES \in DOMAIN db
    /\ \E c \in db[FILES].columns : c.name = "path" /\ c.pk
    /\ \A i \in 1..Len(required) : required[i].name \in list_columns(db, FILES)

\* a table files without path is found under a new name as it was, and the
\* table files is empty
RenamedAside(before, after) ==
    (FILES \in DOMAIN before /\ "path" \notin list_columns(before, FILES))
        => /\ after[FILES].rows = {}
           /\ \E name \in DOMAIN after \ DOMAIN before : after[name] = before[FILES]

\* a table files with path has the rows it had, each with the values it had
KeepsRows(before, after) ==
    (FILES \in DOMAIN before /\ "path" \in list_columns(before, FILES))
        => /\ {project(row, list_columns(before, FILES)) : row \in after[FILES].rows}
                = before[FILES].rows
           /\ Cardinality(after[FILES].rows) = Cardinality(before[FILES].rows)

\* C28: after init_db succeeds, from any database, the table files has the
\* path key and the nine other columns; a table without path was renamed
\* aside and replaced by an empty one; a table with path kept its rows; and
\* init_db run again, at any time, changes nothing
C28_InitDbMigrates ==
    [][(ops' = ops + 1 /\ unwrap(resp'.body).ok)
         => /\ CurrentSchema(tables')
            /\ RenamedAside(tables, tables')
            /\ KeepsRows(tables, tables')
            /\ \A now \in Times : init_db(tables', now) = Ok(tables')]_vars

\* the record a read has written under path is in the cache, and the file
\* has the size and the mtime of the record
Unchanged(path) ==
    /\ path \in DOMAIN scanned
    /\ path \in DOMAIN files
    /\ exists(fs, sanitize_relative(path))
    /\ ~is_dir(fs, sanitize_relative(path))
    /\ files[path].file_size = metadata(fs, sanitize_relative(path)).size
    /\ files[path].last_modified = metadata(fs, sanitize_relative(path)).modified

KeysOf(rel) == {p \in DOMAIN files : sanitize_relative(p) = rel}

\* C30: the cache holds at most one record per file on disk, so that every
\* request path that resolves to a file addresses the one record of it
C30_OneKeyPerFile ==
    \A rel \in DOMAIN fs :
        fs[rel].kind = "file" => Cardinality(KeysOf(rel)) <= 1

\* the keys of the records at rel and below it
RecordsUnder(table, rel) == {p \in DOMAIN table : starts_with(p, rel)}

\* C31: when fs_move or fs_delete returns, with success or with an error,
\* an entry it renamed or removed on disk has no record left at the old
\* path, nor has any of its descendants
C31_MoveAndDeleteAreAtomic ==
    [][/\ \A m \in mv :
             (mv' = mv \ {m} /\ resp'.op = "fs_move" /\ ~exists(fs', m.rel_str))
                => RecordsUnder(files', m.rel_str) = {}
       /\ (ops' = ops + 1 /\ fm' = fm /\ mv' = mv /\ resp'.op = "fs_delete")
             => \A p \in DOMAIN fs \ DOMAIN fs' : p \notin DOMAIN files']_vars

\* the JPEG bytes ensure_preview extracts from the file at rel
PreviewOf(disk, rel) ==
    LET data == disk[rel].content.data
        range == find_largest_jpeg(data)
    IN  IF is_some(range) THEN Some(slice(data, unwrap(range)[1], unwrap(range)[2]))
        ELSE None

\* C32: a preview that file_preview reports available for a path holds the
\* JPEG bytes of the file that is at that path now, whatever fs_delete,
\* fs_move and fs_upload requests have put another file there
C32_PreviewIsOfCurrentFile ==
    [][(ops' = ops + 1 /\ mv' = mv /\ resp'.op = "file_preview"
          /\ resp'.status = 200 /\ ~is_dir(fs, sanitize_relative(resp'.path)))
         => resp'.body = PreviewOf(fs, sanitize_relative(resp'.path))]_vars

RECURSIVE Scanner(_, _, _, _)
\* the two-state scanner at offset i: outside an image when inside = None,
\* inside the image that starts at unwrap(inside) otherwise; found is the
\* set of (start, end) pairs met so far
Scanner(data, i, inside, found) ==
    IF ~(i + 1 < Len(data)) THEN found
    ELSE IF inside = None
    THEN IF data[i + 1] = FF /\ data[i + 2] = D8
         THEN Scanner(data, i + 2, Some(i), found)
         ELSE Scanner(data, i + 1, None, found)
    ELSE IF data[i + 1] = FF /\ data[i + 2] = D9
         THEN Scanner(data, i + 2, None, found \cup {<<unwrap(inside), i + 2>>})
         ELSE Scanner(data, i + 1, inside, found)

\* the pairs of the scanner: each start marker met outside an image with
\* the first end marker after it
Candidates(data) == Scanner(data, 0, None, {})

\* the longest candidate, the earliest of the longest ones
Largest(data) ==
    IF Candidates(data) = {} THEN None
    ELSE Some(CHOOSE c \in Candidates(data) :
                \A q \in Candidates(data) :
                    \/ q[2] - q[1] < c[2] - c[1]
                    \/ (q[2] - q[1] = c[2] - c[1] /\ c[1] <= q[1]))

\* C33: on every buffer find_largest_jpeg returns the longest pair of the
\* two-state scanner, the earliest among equally long ones, and none when
\* the scanner pairs nothing; a returned range lies in the buffer, has at
\* least four bytes, begins with the start marker and ends with the end
\* marker; and the bytes ensure_preview writes on a miss are that range
C33_TwoStateScanner ==
    /\ \A data \in Buffers :
          /\ find_largest_jpeg(data) = Largest(data)
          /\ is_some(find_largest_jpeg(data))
                => unwrap(find_largest_jpeg(data)) \in MarkerRanges(data)
    /\ [][\A rel \in PreviewPaths :
            (ensure_preview(rel) /\ rel \in DOMAIN fs /\ ~Hit(rel)) =>
                LET data == fs[rel].content.data
                    preview_path == preview_cache_path(PREVIEW_DIR, rel)
                IN  IF Largest(data) = None
                    THEN resp'.body = Some(FALSE) /\ previews' = previews
                    ELSE /\ resp'.body = Some(TRUE)
                         /\ previews'[preview_path].bytes =
                               slice(data, unwrap(Largest(data))[1],
                                     unwrap(Largest(data))[2])]_vars

\* C33 witness: of two equally long images in one file the preview written
\* is the first, and the file has no preview from before
C33_Witness ==
    /\ resp.op = "ensure_preview"
    /\ resp.body = Some(TRUE)
    /\ resp.path \in DOMAIN fs
    /\ fs[resp.path].content.data = <<FF, D8, 0, FF, D9, FF, D8, D8, FF, D9>>
    /\ preview_cache_path(PREVIEW_DIR, resp.path) \in DOMAIN previews
    /\ previews[preview_cache_path(PREVIEW_DIR, resp.path)].bytes = <<FF, D8, 0, FF, D9>>
    /\ reads = 1

\* the folder dest_rel is the directory rel or lies below it
Within(dest_rel, rel) ==
    \E n \in 1..Len(dest_rel) :
        /\ SubSeq(dest_rel, 1, n) = rel
        /\ (n = Len(dest_rel) \/ dest_rel[n + 1] = SLASH)

\* the place fs_move gives the entry at rel in the folder dest_rel
TargetOf(dest_rel, rel) == join_rel(dest_rel, file_name(rel))

\* the path at index k of request m has been moved: the entry is at its
\* target and not at its old path, and no record is at or below the old
\* path
StaysMoved(disk, table, m, k) ==
    LET rel == sanitize_relative(m.paths[k])
        target == TargetOf(m.dest_rel, rel)
    IN  /\ ~exists(disk, rel)
        /\ exists(disk, target)
        /\ RecordsUnder(table, rel) = {}

\* C34: when the loop of fs_move comes to an existing path whose name the
\* destination folder already has, or to a directory that is the
\* destination or above it, the request is answered 400 (InvalidInput) for
\* that path, the step changes neither the library nor the cache, the
\* request ends there so that the paths after it are not handled, and the
\* paths before it are moved on disk and in the cache
C34_MoveRejects ==
    [][\A m \in mv :
         LET rel == sanitize_relative(m.paths[m.i])
         IN  (/\ fs_move_path(m)
              /\ m.i <= Len(m.paths)
              /\ rel # <<>>
              /\ exists(fs, rel)
              /\ \/ exists(fs, TargetOf(m.dest_rel, rel))
                 \/ (is_dir(fs, rel) /\ Within(m.dest_rel, rel)))
             => /\ resp' = Reply("fs_move", m.paths[m.i], 400)
                /\ fs' = fs
                /\ files' = files
                /\ mv' = {}
                /\ \A k \in 1..(m.i - 1) : StaysMoved(fs', files', m, k)]_vars

\* C34 witness: a request to move a/x, a/b and a/b/y into a/b was rejected
\* at a/b, with a/x and its record moved and a/b/y where it was
C34_Witness ==
    /\ resp = Reply("fs_move", <<"a", SLASH, "b">>, 400)
    /\ mv = {}
    /\ ops = 1
    /\ <<"a", SLASH, "b", SLASH, "x">> \in DOMAIN fs
    /\ <<"a", SLASH, "b", SLASH, "x">> \in DOMAIN files
    /\ <<"a", SLASH, "x">> \notin DOMAIN fs
    /\ <<"a", SLASH, "x">> \notin DOMAIN files
    /\ <<"a", SLASH, "b", SLASH, "y">> \in DOMAIN fs
    /\ <<"a", SLASH, "b", SLASH, "y">> \in DOMAIN files

=============================================================================
